---- MODULE Spec2Model ----
(***************************************************************************)
(* Book Embeddings Pipeline and RAG chatbot (backend/).                    *)
(*                                                                         *)
(* The module models five parts of the backend, each with its own          *)
(* specification over the same variables:                                  *)
(*   SpecChunk  TextChunker.chunk_text            (utils/chunker.py)       *)
(*   SpecEmbed  Embedder.embed_texts              (utils/embedder.py)      *)
(*   SpecStore  QdrantStorage                     (utils/qdrant_storage.py)*)
(*   Spec       BookEmbeddingPipeline.run_pipeline (main.py)               *)
(*   SpecAsk    ask_question + NeonLogger         (api/main.py,            *)
(*                                                 database/neon_logger.py)*)
(***************************************************************************)
EXTENDS Integers, Sequences, FiniteSets, TLC

(***************************************************************************)
(* Bounds of the model.                                                    *)
(***************************************************************************)
\* longest text given to the chunker alone, in pieces of the sentence split
MaxPieces == 4
\* largest Config.CHUNK_SIZE tried
MaxChunkSize == 3
\* Config.CHUNK_OVERLAP is overlap_num / OverlapDen, overlap_num in 0..MaxOverlapNum
MaxOverlapNum == 5
OverlapDen == 4
\* chunks recorded per chunk_text call; a loop that appends more keeps
\* running with ck.truncated set, ck.lap counting its iterations modulo 2
MaxChunks == MaxPieces + 2

\* longest list given to embed_texts alone
MaxTexts == 4
\* Embedder.max_batch_size (utils/embedder.py line 25 sets 96), scaled down so
\* that a list of MaxTexts texts spans more than one batch
max_batch_size == 2

\* operations run on the store alone, and the longest list given to
\* save_chunks_batch
MaxStoreOps == 2
MaxBatchArgs == 3

\* longest URL list a run discovers, longest page in sentences, and the
\* largest Config.CHUNK_SIZE of a run
MaxUrls == 2
MaxPagePieces == 3
MaxPipeChunkSize == 2

\* the times one URL is ingested into the same collection
MaxPasses == 2

\* concurrent ask requests
MaxRequests == 2

\* concurrent get_conversation requests, and max_size of the connection
\* pool (neon_logger.py line 34 sets 10), scaled down so that the calls in
\* flight can need more connections than the pool has
MaxHistCalls == 1
PoolMaxSize == 2

\* longest list of test queries given to validate_retrieval_accuracy, and
\* sample_content[:200] of validator.py line 166, counted in pieces
MaxQueries == 2
SampleLen == 2

Min(a, b) == IF a < b THEN a ELSE b

\* F(x), with x evaluated once
Let(x, F(_)) == CHOOSE v \in {F(y) : y \in {x}} : TRUE

Range(s) == {s[i] : i \in DOMAIN s}

SeqsUpTo(S, n) == UNION {[1..k -> S] : k \in 0..n}

(***************************************************************************)
(* Python list semantics used by the code.                                 *)
(***************************************************************************)
\* a slice index of a list of length n, as list.__getitem__ clamps it
PyIndex(i, n) ==
    IF i < 0 THEN (IF i + n < 0 THEN 0 ELSE i + n)
    ELSE (IF i > n THEN n ELSE i)

\* s[a:b] with 0-based a, b (either may be negative or past the end)
PySlice(s, a, b) ==
    LET lo == PyIndex(a, Len(s))
        hi == PyIndex(b, Len(s))
    IN IF lo < hi THEN SubSeq(s, lo + 1, hi) ELSE <<>>

VARIABLES
    chunk_size,     \* Config.CHUNK_SIZE, read by TextChunker.__init__
    overlap_num,    \* Config.CHUNK_OVERLAP * OverlapDen
    ck,             \* the frame of the running chunk_text call
    sw,             \* the frame of the chunk_with_sliding_window call
    provider_dim,   \* length of the vectors the embedding provider returns
    et,             \* the frame of the embed_texts call
    store,          \* the Qdrant collection Config.COLLECTION_NAME
    store_calls,    \* number of requests made to the Qdrant client
    upserted,       \* chunks written to the collection since it was created
    st,             \* the frame of the last QdrantStorage call run alone
    pc,             \* where run_pipeline is
    urls,           \* the list get_all_urls returned
    url_i,          \* number of URLs the loop of run_pipeline is done with
    processed_count,
    failed_count,
    processed_content,  \* BookEmbeddingPipeline.processed_content
    ps,             \* the frame of the running process_single_url call
    history,        \* one record for every process_single_url call that ended
    summary,        \* what run_pipeline returned
    val,            \* the frame of the Validator call
    reqs,           \* the frame of every ask_question request
    conv_log,       \* the rows of the conversations table, oldest first
    pool,           \* NeonLogger.pool: "none" or "open"
    borrowed,       \* connections of the pool that are acquired
    hist,           \* the frame of every get_conversation request
    next_uuid       \* number of uuid4 identifiers generated

chunkVars == <<chunk_size, overlap_num, ck, sw>>
embedVars == <<provider_dim, et>>
storeVars == <<store, store_calls, upserted, st>>
pipeVars == <<pc, urls, url_i, processed_count, failed_count,
              processed_content, ps, history, summary, val>>
askVars == <<reqs, conv_log, pool, borrowed, hist, next_uuid>>

(***************************************************************************)
(* utils/chunker.py                                                        *)
(***************************************************************************)
\* A piece of text between two sentence boundaries: "" is a blank piece.
Blank == ""
Pieces == {Blank, "A", "B"}
\* the text "A. B. C. D."
FourSentences == <<"A", "B", "C", "D">>
Texts == SeqsUpTo(Pieces, MaxPieces) \cup {FourSentences}

\* hashlib.md5(...).hexdigest()[:k] of a value: collision-free digest
md5(x) == <<"md5", x>>

\* a url and a content id for the components run alone
SomeUrl == <<"u">>
SomeContentId == <<"content", md5(<<"u", "old">>)>>

\* a split that keeps the blank pieces
_split_into_sentences_keeping_blank(text) == text

\* TextChunker._split_into_sentences: the pieces of re.split, stripped,
\* blank ones dropped
_split_into_sentences(text) == SelectSeq(text, LAMBDA p : p # Blank)

\* the frame before the call
ChunkIdle ==
    [pc |-> "idle", text |-> <<>>, content_id |-> <<>>, url |-> <<>>,
     section_title |-> <<>>, hierarchy_path |-> <<>>,
     sentences |-> <<>>, overlap_sentences |-> 0, current_start |-> 0,
     chunk_index |-> 0, chunks |-> <<>>, truncated |-> FALSE, lap |-> 0,
     now |-> 0]

\* the overlap as a fraction of the chunk size
OverlapSentencesOfChunkSize(n, ovl) == (chunk_size * ovl) \div OverlapDen

\* chunk_text line 64: int(len(sentences) * self.overlap)
OverlapSentences(n, ovl) == (n * ovl) \div OverlapDen

\* chunk_text lines 50-64: the early returns and the loop's initial state
\* (now is the time datetime.utcnow() gives during the call)
ChunkEnter(text, content_id, url, section_title, hierarchy_path, ovl, now) ==
    LET sentences == _split_into_sentences(text)
        base == [ChunkIdle EXCEPT !.text = text, !.content_id = content_id,
                                  !.url = url, !.section_title = section_title,
                                  !.hierarchy_path = hierarchy_path, !.now = now]
    IN IF Len(text) = 0 \/ Len(sentences) = 0
       THEN [base EXCEPT !.pc = "returned"]
       ELSE [base EXCEPT !.pc = "loop",
                         !.sentences = sentences,
                         !.overlap_sentences = OverlapSentences(Len(sentences), ovl)]

\* chunk_text line 106: where the window starts after a chunk was appended
NextStartSkipsOverlap(current_end, overlap_sentences, n) ==
    IF current_end < n THEN current_end + overlap_sentences ELSE current_end

NextStart(current_end, overlap_sentences, n) ==
    IF current_end < n THEN current_end - overlap_sentences ELSE current_end

\* chunk_text lines 79-81: the overlap recorded on a chunk
OverlapWithNext(current_end, overlap_sentences, n) ==
    IF current_end < n THEN Min(overlap_sentences, n - current_end) ELSE 0

\* a chunk id made of the creation time in place of the hash of the text
chunk_id_of_time(f, chunk_sentences) == <<f.content_id, f.now, f.chunk_index>>

\* chunk_text lines 83-85: content_id, the hash of the chunk text and the
\* index of the chunk
chunk_id(f, chunk_sentences) == <<f.content_id, md5(chunk_sentences), f.chunk_index>>

\* chunk_text lines 66-110: one iteration of the while loop, and the return
\* when the loop condition fails afterwards
ChunkLoopBody(f, cs) ==
    LET n == Len(f.sentences)
        current_end == Min(f.current_start + cs, n)
        chunk_sentences == PySlice(f.sentences, f.current_start, current_end)
        overlap_with_next == OverlapWithNext(current_end, f.overlap_sentences, n)
        chunk == [id |-> chunk_id(f, chunk_sentences),
                  content_id |-> f.content_id,
                  chunk_text |-> chunk_sentences,
                  chunk_index |-> f.chunk_index,
                  token_count |-> Len(chunk_sentences),
                  section_title |-> f.section_title,
                  hierarchy_path |-> f.hierarchy_path,
                  overlap_with_next |-> overlap_with_next,
                  url |-> f.url,
                  created_at |-> f.now,
                  lo |-> PyIndex(f.current_start, n),
                  hi |-> PyIndex(current_end, n)]
        next_start ==
            IF Len(chunk_sentences) = 0 THEN current_end
            ELSE NextStart(current_end, f.overlap_sentences, n)
        full == Len(f.chunks) >= MaxChunks
        g == IF Len(chunk_sentences) = 0 THEN f
             ELSE IF full THEN [f EXCEPT !.truncated = TRUE, !.lap = 1 - f.lap]
             ELSE [f EXCEPT !.chunks = Append(f.chunks, chunk),
                            !.chunk_index = f.chunk_index + 1]
    IN [g EXCEPT !.current_start = next_start,
                 !.pc = IF next_start < n THEN "loop" ELSE "returned"]

\* text.split() of line 153: the words of the text (a piece stands for a
\* word, a blank piece for whitespace)
split(text) == SelectSeq(text, LAMBDA p : p # Blank)

\* chunk_with_sliding_window line 160: int(words_per_chunk * self.overlap)
OverlapWords(words_per_chunk, ovl) == (words_per_chunk * ovl) \div OverlapDen

\* chunk_with_sliding_window lines 149-164: the early returns and the
\* loop's initial state (sentences holds the words, overlap_sentences the
\* overlap in words, current_start is start_idx)
WindowEnter(text, content_id, url, section_title, hierarchy_path, cs, ovl, now) ==
    LET words == split(text)
        base == [ChunkIdle EXCEPT !.text = text, !.content_id = content_id,
                                  !.url = url, !.section_title = section_title,
                                  !.hierarchy_path = hierarchy_path, !.now = now]
    IN IF Len(text) = 0 \/ Len(words) = 0
       THEN [base EXCEPT !.pc = "returned"]
       ELSE [base EXCEPT !.pc = "loop",
                         !.sentences = words,
                         !.overlap_sentences = OverlapWords(cs, ovl)]

\* chunk_with_sliding_window lines 166-204: one iteration of the while
\* loop, and the return when the loop condition fails afterwards. The
\* iteration is that of chunk_text with words for sentences, start_idx,
\* end_idx and overlap_words for current_start, current_end and
\* overlap_sentences, and len(chunk_words) for the token count.
WindowLoopBody(f, cs) == ChunkLoopBody(f, cs)

(***************************************************************************)
(* utils/embedder.py                                                       *)
(***************************************************************************)
\* the dimensions the two comments of the source give for the model
\* (embedder.py line 24: 1024, line 122: 768)
ProviderDims == {768, 1024}

\* the vector the provider returns for a text (a deterministic provider)
Embedding(text, dim) == [of |-> text, dim |-> dim]

\* the None that line 76 appends for a text whose individual call failed
NoneVec == [of |-> <<>>, dim |-> 0]

\* range(0, n, max_batch_size)
BatchStarts(n) == {i \in 0..(n - 1) : i % max_batch_size = 0}

\* a slice one text longer: texts[i:i + max_batch_size + 1]
BatchPositionsTooLong(n, i) == [j \in 1..(Min(i + max_batch_size + 1, n) - i) |-> i + j - 1]

\* line 45: the 0-based positions of texts[i:i + max_batch_size]
BatchPositions(n, i) == [j \in 1..(Min(i + max_batch_size, n) - i) |-> i + j - 1]

\* embed_texts line 79 without the filter: the placeholders stay
SuccessfulEmbeddingsKeepsNone(batch_fallback) == batch_fallback

\* embed_texts line 79: only the embeddings that are not None
SuccessfulEmbeddings(batch_fallback) ==
    SelectSeq(batch_fallback, LAMBDA emb : emb # NoneVec)

\* A call of the provider client: the positions of the texts it carries,
\* whether it is an individual (fallback) call, and whether it succeeded.
ProviderCall(positions, single, ok) ==
    [positions |-> positions, single |-> single, ok |-> ok]

\* the fallback calls with a second attempt for a text whose first failed
FallbackCallsRetrying(pos, failS) ==
    [j \in 1..(2 * Len(pos)) |->
        ProviderCall(<<pos[(j + 1) \div 2]>>, TRUE, pos[(j + 1) \div 2] \notin failS)]

\* embed_texts lines 65-76: one individual call for each text of the batch
FallbackCalls(pos, failS) ==
    [j \in DOMAIN pos |-> ProviderCall(<<pos[j]>>, TRUE, pos[j] \notin failS)]

\* embed_texts lines 45-80 for the batch starting at i. failB is the set of
\* batch starts whose batch call raises, failS the set of positions whose
\* individual call raises.
EmbedBatch(texts, i, failB, failS, dim) ==
    LET pos == BatchPositions(Len(texts), i)
    IN IF i \notin failB
       THEN [vectors |-> [j \in DOMAIN pos |-> Embedding(texts[pos[j] + 1], dim)],
             calls |-> <<ProviderCall(pos, FALSE, TRUE)>>]
       ELSE LET batch_fallback ==
                    [j \in DOMAIN pos |->
                        IF pos[j] \in failS THEN NoneVec
                        ELSE Embedding(texts[pos[j] + 1], dim)]
            IN [vectors |-> SuccessfulEmbeddings(batch_fallback),
                calls |-> <<ProviderCall(pos, FALSE, FALSE)>> \o
                          FallbackCalls(pos, failS)]

RECURSIVE EmbedFrom(_, _, _, _, _)
EmbedFrom(texts, i, failB, failS, dim) ==
    IF i >= Len(texts) THEN [vectors |-> <<>>, calls |-> <<>>]
    ELSE Let(EmbedBatch(texts, i, failB, failS, dim), LAMBDA b :
         Let(EmbedFrom(texts, i + max_batch_size, failB, failS, dim), LAMBDA rest :
             [vectors |-> b.vectors \o rest.vectors,
              calls |-> b.calls \o rest.calls]))

\* Embedder.embed_texts: none is TRUE when it returns None (line 39)
embed_texts(texts, failB, failS, dim) ==
    IF Len(texts) = 0
    THEN [none |-> TRUE, vectors |-> <<>>, calls |-> <<>>]
    ELSE Let(EmbedFrom(texts, 0, failB, failS, dim), LAMBDA r :
             [none |-> FALSE, vectors |-> r.vectors, calls |-> r.calls])

\* embed_single_text returning a vector whatever the call did
embed_single_text_never_none(text, fails, dim) ==
    [none |-> FALSE, vector |-> Embedding(text, dim)]

\* Embedder.embed_single_text: none is TRUE when it returns None, which it
\* does when the call raises and when the response has no embeddings
embed_single_text(text, fails, dim) ==
    IF fails THEN [none |-> TRUE, vector |-> NoneVec]
    ELSE [none |-> FALSE, vector |-> Embedding(text, dim)]

\* the frame before the call
EmbedIdle == [pc |-> "idle", texts |-> <<>>, none |-> FALSE, vectors |-> <<>>,
              calls |-> <<>>]

(***************************************************************************)
(* utils/qdrant_storage.py                                                 *)
(***************************************************************************)
\* the vector size main.py line 103 creates the collection with
VectorSize == 768

\* no collection of the configured name
NoCollection == [exists |-> FALSE, size |-> 0, distance |-> "none", points |-> {}]

\* a collection as client.create_collection leaves it (lines 52-58)
EmptyCollection(vector_size) ==
    [exists |-> TRUE, size |-> vector_size, distance |-> "Cosine", points |-> {}]

\* save_chunk_to_qdrant lines 73-82 and save_chunks_batch lines 118-127
Payload(chunk) ==
    [url |-> chunk.url, section |-> chunk.section_title,
     hierarchy_path |-> chunk.hierarchy_path, chunk_index |-> chunk.chunk_index,
     token_count |-> chunk.token_count, content |-> chunk.chunk_text,
     created_at |-> chunk.created_at, content_id |-> chunk.content_id]

\* a point id that also depends on when the chunk was created
PointIdFromTimestamp(chunk) == <<"uuid5", <<chunk.id, chunk.created_at>>>>

\* lines 85 and 129: str(uuid.uuid5(uuid.NAMESPACE_DNS, chunk.id))
PointId(chunk) == <<"uuid5", chunk.id>>

\* models.PointStruct(id, vector, payload)
PointStruct(chunk, embedding) ==
    [id |-> PointId(chunk), vector |-> embedding, payload |-> Payload(chunk)]

\* what the Qdrant server does with an upsert of one point: the point
\* replaces the stored point of the same id
UpsertPoint(points, p) == {q \in points : q.id # p.id} \cup {p}

RECURSIVE UpsertPoints(_, _)
UpsertPoints(points, pts) ==
    IF Len(pts) = 0 THEN points
    ELSE UpsertPoints(UpsertPoint(points, Head(pts)), Tail(pts))

\* the server refuses an upsert into a missing collection or of a vector
\* whose length is not the collection's
ServerAccepts(s, pts) ==
    s.exists /\ \A k \in DOMAIN pts : pts[k].vector.dim = s.size

\* client.upsert(collection_name, points): fails says that the request
\* fails for a reason of its own (network, server)
ClientUpsert(s, pts, fails) ==
    IF fails \/ ~ServerAccepts(s, pts)
    THEN [store |-> s, raised |-> "provider"]
    ELSE [store |-> [s EXCEPT !.points = UpsertPoints(s.points, pts)],
          raised |-> "none"]

\* zip(chunks, embeddings) of lines 117 and main.py 205, as point structs
ZipPoints(chunks, embeddings) ==
    [k \in 1..Min(Len(chunks), Len(embeddings)) |-> PointStruct(chunks[k], embeddings[k])]

\* QdrantStorage.save_chunk_to_qdrant: the store afterwards, the exception
\* raised and the number of client requests made
save_chunk_to_qdrant(s, chunk, embedding, fails) ==
    LET r == ClientUpsert(s, <<PointStruct(chunk, embedding)>>, fails)
    IN [store |-> r.store, raised |-> r.raised, calls |-> 1]

\* save_chunks_batch without the check of lines 108-111
save_chunks_batch_unchecked(s, chunks, embeddings, fails) ==
    LET r == ClientUpsert(s, ZipPoints(chunks, embeddings), fails)
    IN [store |-> r.store, raised |-> r.raised, calls |-> 1]

\* QdrantStorage.save_chunks_batch
save_chunks_batch(s, chunks, embeddings, fails) ==
    IF Len(chunks) # Len(embeddings)
    THEN [store |-> s, raised |-> "ValueError", calls |-> 0]
    ELSE LET r == ClientUpsert(s, ZipPoints(chunks, embeddings), fails)
         IN [store |-> r.store, raised |-> r.raised, calls |-> 1]

\* create_collection that keeps a collection it finds
create_collection_if_missing(s, vector_size, fail_at) ==
    IF fail_at = "list"
    THEN [store |-> s, raised |-> "provider", calls |-> 1]
    ELSE IF s.exists
    THEN [store |-> s, raised |-> "none", calls |-> 1]
    ELSE IF fail_at = "create"
    THEN [store |-> NoCollection, raised |-> "provider", calls |-> 2]
    ELSE [store |-> EmptyCollection(vector_size), raised |-> "none", calls |-> 2]

\* QdrantStorage.create_collection: fail_at names the client request that
\* raises, if any ("list", "delete", "create" or "none")
create_collection(s, vector_size, fail_at) ==
    IF fail_at = "list"
    THEN [store |-> s, raised |-> "provider", calls |-> 1]
    ELSE IF s.exists /\ fail_at = "delete"
    THEN [store |-> s, raised |-> "provider", calls |-> 2]
    ELSE IF fail_at = "create"
    THEN [store |-> NoCollection, raised |-> "provider",
          calls |-> IF s.exists THEN 3 ELSE 2]
    ELSE [store |-> EmptyCollection(vector_size), raised |-> "none",
          calls |-> IF s.exists THEN 3 ELSE 2]

FailPoints == {"none", "list", "delete", "create"}

\* the frame before any call
StoreIdle == [op |-> "none", raised |-> "none", chunks |-> <<>>,
              embeddings |-> <<>>, before |-> NoCollection,
              calls_before |-> 0, upserted_before |-> {}, ops |-> 0]

StoreUnused ==
    /\ store = NoCollection
    /\ store_calls = 0
    /\ upserted = {}
    /\ st = StoreIdle

(***************************************************************************)
(* main.py                                                                 *)
(***************************************************************************)
\* the overlap fraction of a run: Config.CHUNK_OVERLAP = 0.5
PipeOverlapNum == 2

\* content[:100] of line 135, counted in pieces
PrefixLen == 2

\* the URLs discovery can return; the second extends the first
Urls == {<<"u">>, <<"u", "A">>}

UrlLists == SeqsUpTo(Urls, MaxUrls)

\* the page contents extraction can return: non-empty texts over two
\* sentences in which neighbouring sentences differ
PageTexts ==
    {t \in SeqsUpTo({"A", "B"}, MaxPagePieces) :
        Len(t) >= 1 /\ \A k \in 1..(Len(t) - 1) : t[k] # t[k + 1]}

\* what TextExtractor.extract_text_from_url returns with the content: the
\* title of the page and the hierarchy path of the URL
Title(content) == <<"title", Head(content)>>
_get_hierarchy_path(url) == <<"path", url>>

\* BookEmbeddingPipeline._generate_content_id
_generate_content_id(url, content) ==
    <<"content", md5(url \o PySlice(content, 0, PrefixLen))>>

\* a check that never finds the content
_has_been_processed_never(content_id, processed) == FALSE

\* BookEmbeddingPipeline._has_been_processed
_has_been_processed(content_id, processed) == content_id \in processed

\* a set that keeps the last content id only
_mark_as_processed_last(content_id, processed) == {content_id}

\* BookEmbeddingPipeline._mark_as_processed
_mark_as_processed(content_id, processed) == processed \cup {content_id}

\* line 200 with only its first test
EmbeddingsUsableAnyLength(e, chunks) == ~e.none /\ Len(e.vectors) > 0

\* the negation of line 200: not (not embeddings or len(embeddings) != len(chunks))
EmbeddingsUsable(e, chunks) ==
    ~e.none /\ Len(e.vectors) > 0 /\ Len(e.vectors) = Len(chunks)

\* lines 205-206: the upsert of the pairs of zip(chunks, embeddings) one by
\* one from pair k on, until one raises. fail_k is the pair whose request
\* fails for a reason of its own (0 for none).
RECURSIVE UpsertLoop(_, _, _, _, _)
UpsertLoop(s, chunks, embeddings, k, fail_k) ==
    IF k > Min(Len(chunks), Len(embeddings))
    THEN [store |-> s, raised |-> "none", calls |-> 0, written |-> <<>>]
    ELSE Let(save_chunk_to_qdrant(s, chunks[k], embeddings[k], k = fail_k),
             LAMBDA r :
                IF r.raised # "none"
                THEN [store |-> r.store, raised |-> r.raised, calls |-> r.calls,
                      written |-> <<>>]
                ELSE Let(UpsertLoop(r.store, chunks, embeddings, k + 1, fail_k),
                         LAMBDA rest :
                            [store |-> rest.store, raised |-> rest.raised,
                             calls |-> r.calls + rest.calls,
                             written |-> <<PointStruct(chunks[k], embeddings[k])>>
                                         \o rest.written]))

\* the record of a process_single_url call (content is the text extracted,
\* chunk_ids the ids of the chunks chunk_text returned)
Outcome(url, content_id, result, raised, reason) ==
    [url |-> url, content |-> <<>>, content_id |-> content_id, result |-> result,
     raised |-> raised, reason |-> reason, chunked |-> FALSE, chunk_ids |-> <<>>,
     embedded |-> FALSE, embed_none |-> FALSE, n_chunks |-> 0, n_vectors |-> 0,
     upserts |-> 0, written |-> <<>>, marked |-> FALSE]

\* an except clause that lets the exception through
ExceptPropagates(o) == o

\* lines 214-216: an exception raised in the body becomes the result False
ExceptReturnsFalse(o) ==
    IF o.raised # "none" THEN [o EXCEPT !.raised = "none", !.result = FALSE] ELSE o

\* lines 172-185: extraction, the content id and the idempotency check.
\* content is <<>> when extraction gave (None, None, None).
ProcessHead(url, content, processed) ==
    IF Len(content) = 0
    THEN Outcome(url, <<>>, FALSE, "none", "no_content")
    ELSE LET content_id == _generate_content_id(url, content)
         IN IF _has_been_processed(content_id, processed)
            THEN [Outcome(url, content_id, TRUE, "none", "skipped")
                     EXCEPT !.content = content]
            ELSE [Outcome(url, content_id, TRUE, "none", "chunk")
                     EXCEPT !.content = content]

\* lines 190-212: from the chunks that chunk_text returned to the result
ProcessTail(url, content_id, chunks, s, failB, failS, fail_k, dim) ==
    LET base == [Outcome(url, content_id, FALSE, "none", "no_chunks")
                    EXCEPT !.chunked = TRUE, !.n_chunks = Len(chunks),
                           !.chunk_ids = [k \in DOMAIN chunks |-> chunks[k].id]]
        chunk_texts == [k \in DOMAIN chunks |-> chunks[k].chunk_text]
    IN IF Len(chunks) = 0 THEN [outcome |-> base, store |-> s]
       ELSE Let(embed_texts(chunk_texts, failB, failS, dim), LAMBDA e :
            Let([base EXCEPT !.embedded = TRUE, !.embed_none = e.none,
                             !.n_vectors = Len(e.vectors),
                             !.reason = "mismatch"], LAMBDA embedded :
            IF ~EmbeddingsUsable(e, chunks)
            THEN [outcome |-> embedded, store |-> s]
            ELSE Let(UpsertLoop(s, chunks, e.vectors, 1, fail_k), LAMBDA u :
                 Let([embedded EXCEPT !.upserts = u.calls,
                                      !.written = u.written], LAMBDA saved :
                 IF u.raised # "none"
                 THEN [outcome |-> [saved EXCEPT !.raised = u.raised,
                                                 !.reason = "upsert_failed"],
                       store |-> u.store]
                 ELSE [outcome |-> [saved EXCEPT !.result = TRUE,
                                                 !.reason = "ok",
                                                 !.marked = TRUE],
                       store |-> u.store]))))

\* run_comprehensive_validation as run_pipeline sees it: the overall status
\* ("success", "failed" or "error")
ValidationStatuses == {"success", "failed", "error"}

\* the share of the failed URLs instead
SuccessRateOfFailed(processed, failed) ==
    IF processed + failed > 0
    THEN [num |-> failed * 100, den |-> processed + failed]
    ELSE [num |-> 0, den |-> 1]

\* lines 257-258: success_rate, as the fraction num / den
SuccessRate(processed, failed) ==
    IF processed + failed > 0
    THEN [num |-> processed * 100, den |-> processed + failed]
    ELSE [num |-> 0, den |-> 1]

\* f"{x:.2f}%" of line 264: x rounded to the nearest hundredth, given as
\* the number of hundredths (3333 for "33.33%")
Format2f(x) == (x.num * 200 + x.den) \div (2 * x.den)

\* lines 260-266
Summary(n_urls, processed, failed, status) ==
    [total_urls |-> n_urls, processed |-> processed, failed |-> failed,
     success_rate |-> Format2f(SuccessRate(processed, failed)),
     validation_results |-> status]

NoSummary == Summary(0, 0, 0, "none")

PsIdle == [pc |-> "idle", url |-> <<>>, content |-> <<>>, content_id |-> <<>>]

\* the frame before a call of the validator
ValIdle == [op |-> "none"]

PipeUnused ==
    /\ pc = "unused"
    /\ urls = <<>>
    /\ url_i = 0
    /\ processed_count = 0
    /\ failed_count = 0
    /\ processed_content = {}
    /\ ps = PsIdle
    /\ history = <<>>
    /\ summary = NoSummary
    /\ val = ValIdle

AskUnused ==
    /\ reqs = <<>>
    /\ conv_log = <<>>
    /\ pool = "none"
    /\ borrowed = 0
    /\ hist = <<>>
    /\ next_uuid = 0

(***************************************************************************)
(* QdrantStorage.search_similar                                            *)
(***************************************************************************)
\* the similarity the server computes between a query vector and a stored
\* vector, in percent: the share of sentences the two texts have in common
Score(q, v) ==
    LET both == Range(q.of) \cap Range(v.of)
        any == Range(q.of) \cup Range(v.of)
    IN IF any = {} THEN 0 ELSE (100 * Cardinality(both)) \div Cardinality(any)

\* client.query_points(...).points: the answers the server can give, the k
\* nearest points by descending score (the order of equal scores is the
\* server's)
RankedLists(points, q, k) ==
    LET n == Min(k, Cardinality(points))
    IN {r \in [1..n -> points] :
          /\ \A i \in 1..n : \A j \in 1..n : i # j => r[i] # r[j]
          /\ \A i \in 1..n : \A j \in 1..n :
                i < j => Score(q, r[i].vector) >= Score(q, r[j].vector)
          /\ \A x \in points \ Range(r) : \A i \in 1..n :
                Score(q, x.vector) <= Score(q, r[i].vector)}

\* a chunk_info that leaves the score of the result out
ChunkInfoWithoutScore(result, q) ==
    [id |-> result.id, score |-> 0,
     payload |-> result.payload, content |-> result.payload.content,
     url |-> result.payload.url, section |-> result.payload.section,
     hierarchy_path |-> result.payload.hierarchy_path]

\* lines 169-177: what search_similar returns for one point of the answer
ChunkInfo(result, q) ==
    [id |-> result.id, score |-> Score(q, result.vector),
     payload |-> result.payload, content |-> result.payload.content,
     url |-> result.payload.url, section |-> result.payload.section,
     hierarchy_path |-> result.payload.hierarchy_path]

\* client.query_points raises: the collection is missing, the query vector
\* has not the collection's size, or the request fails for a reason of its
\* own (fails)
QueryPointsRaises(s, query_embedding, fails) ==
    fails \/ ~s.exists \/ query_embedding.dim # s.size

\* search_similar without its except clause
search_similar_raising(s, query_embedding, ranked, fails) ==
    IF QueryPointsRaises(s, query_embedding, fails)
    THEN [chunks |-> <<>>, raised |-> "provider"]
    ELSE [chunks |-> [k \in DOMAIN ranked |-> ChunkInfo(ranked[k], query_embedding)],
          raised |-> "none"]

\* QdrantStorage.search_similar: the list it returns and the exception it
\* raises; ranked is the server's answer
search_similar(s, query_embedding, ranked, fails) ==
    IF QueryPointsRaises(s, query_embedding, fails)
    THEN [chunks |-> <<>>, raised |-> "none"]
    ELSE [chunks |-> [k \in DOMAIN ranked |-> ChunkInfo(ranked[k], query_embedding)],
          raised |-> "none"]

(***************************************************************************)
(* api/main.py and database/neon_logger.py                                 *)
(***************************************************************************)
\* top_k of api/main.py line 120
TopK == 5

\* limit of get_conversation_history, neon_logger.py line 108
HistoryLimit == 50

\* no conversation_id in the request (None)
NoId == <<>>

\* the conversation_id "" in the request
EmptyId == <<"">>

\* a generator that returns the same identifier again
uuid4_repeating(n) == <<"uuid4", 0>>

\* str(uuid.uuid4()): the n-th identifier generated
uuid4(n) == <<"uuid4", n>>

\* line 112, chat_message.conversation_id or ...: None and "" are false
IdMissing(given_id) == given_id \in {NoId, EmptyId}

\* line 126
CannedAnswer == <<"I couldn't find relevant information">>

\* co.chat(message, ...).text.strip() for the prompt of lines 167-176
Completion(context, message) == <<"answer", context, message>>

\* lines 143-157: the context parts and the sources of the retrieved chunks
RECURSIVE ContextParts(_)
ContextParts(similar_chunks) ==
    IF Len(similar_chunks) = 0 THEN <<>>
    ELSE (IF Len(Head(similar_chunks).content) > 0
          THEN <<Head(similar_chunks).content>> ELSE <<>>)
         \o ContextParts(Tail(similar_chunks))

\* a source that loses the score
SourceWithoutScore(chunk) ==
    [url |-> chunk.url, section |-> chunk.section,
     hierarchy_path |-> chunk.hierarchy_path, similarity_score |-> 0]

\* lines 152-157: the source of a chunk
Source(chunk) ==
    [url |-> chunk.url, section |-> chunk.section,
     hierarchy_path |-> chunk.hierarchy_path, similarity_score |-> chunk.score]

RECURSIVE Sources(_)
Sources(similar_chunks) ==
    IF Len(similar_chunks) = 0 THEN <<>>
    ELSE (IF Len(Head(similar_chunks).content) > 0
          THEN <<Source(Head(similar_chunks))>> ELSE <<>>)
         \o Sources(Tail(similar_chunks))

\* a response that carries an identifier of its own
RAGResponseWithOwnId(query, answer, sources, conversation_id) ==
    [query |-> query, answer |-> answer, sources |-> sources,
     conversation_id |-> uuid4(MaxRequests + 1)]

\* RAGResponse
RAGResponse(query, answer, sources, conversation_id) ==
    [query |-> query, answer |-> answer, sources |-> sources,
     conversation_id |-> conversation_id]

NoResponse == RAGResponse(<<>>, <<>>, <<>>, NoId)

\* a row that loses the sources
ConversationRowWithoutSources(conversation_id, user_message, bot_response, sources, user_ip, metadata, r) ==
    [conversation_id |-> conversation_id, user_message |-> user_message,
     bot_response |-> bot_response, sources |-> <<>>, user_ip |-> user_ip,
     metadata |-> metadata, req |-> r]

\* log_interaction lines 91-103: the row the INSERT adds (req is the
\* request that made the call)
ConversationRow(conversation_id, user_message, bot_response, sources, user_ip, metadata, r) ==
    [conversation_id |-> conversation_id, user_message |-> user_message,
     bot_response |-> bot_response, sources |-> sources, user_ip |-> user_ip,
     metadata |-> metadata, req |-> r]

\* lines 201-205 (context_length counted in context parts), and the {} that
\* line 102 puts for no metadata
Metadata(context_parts, sources) ==
    [context_length |-> Len(context_parts), source_count |-> Len(sources)]
NoMetadata == [context_length |-> 0, source_count |-> 0]

\* line 213: the detail of the HTTPException, made of str(e)
ErrorDetail(e) == <<"Error processing query", e>>

\* the frame of a request that has not started
NewRequest(message, given_id, user_ip) ==
    [pc |-> "new", message |-> message, given_id |-> given_id,
     user_ip |-> user_ip, conversation_id |-> NoId, path |-> "none",
     response |-> NoResponse, status |-> 0, detail |-> <<>>,
     metadata |-> NoMetadata,
     embed_none |-> FALSE, search_calls |-> 0, search_error |-> FALSE,
     retrieved |-> <<>>, chat_calls |-> 0, chat_error |-> FALSE,
     log_calls |-> 0, log_outcome |-> "none"]

\* a handler that takes the answer of a failed call of the provider
ChatRaisesNever(chat_fails) == FALSE

\* lines 178-184: co.chat raises, or its answer has no text to strip
ChatRaises(chat_fails) == chat_fails

\* a test of the query embedding that lets None through
QueryEmbeddingMissingNever(e) == FALSE

\* line 116: not query_embedding
QueryEmbeddingMissing(e) == e.none

\* ask_question lines 108-129 and 142-192: from the request to the call of
\* log_interaction, or to the HTTPException that line 213 raises for any
\* exception of the try block (embed_none, search_calls, search_error,
\* chat_calls and chat_error record what embed_single_text returned, the
\* calls made and whether they failed,
\* retrieved what search_similar returned)
AskHead(f, s, n_uuid, embed_fails, ranked, search_fails, chat_fails, dim) ==
    LET conversation_id == IF IdMissing(f.given_id) THEN uuid4(n_uuid) ELSE f.given_id
        g == [f EXCEPT !.conversation_id = conversation_id]
    IN Let(embed_single_text(f.message, embed_fails, dim), LAMBDA e :
       IF QueryEmbeddingMissing(e)
       THEN [g EXCEPT !.pc = "error500", !.status = 500, !.embed_none = TRUE,
                      !.detail = ErrorDetail("Failed to generate query embedding"),
                      !.path = "embedding_failed"]
       ELSE Let(search_similar(s, e.vector, ranked, search_fails), LAMBDA found :
            Let([g EXCEPT !.embed_none = e.none, !.search_calls = 1,
                          !.retrieved = found.chunks,
                          !.search_error =
                              QueryPointsRaises(s, e.vector, search_fails)],
                LAMBDA h :
            IF found.raised # "none"
            THEN [h EXCEPT !.pc = "error500", !.status = 500,
                           !.detail = ErrorDetail(found.raised),
                           !.path = "search_raised"]
            ELSE IF Len(found.chunks) = 0
            THEN [h EXCEPT !.pc = "log", !.path = "no_context",
                           !.response = RAGResponse(f.message, CannedAnswer, <<>>,
                                                    conversation_id)]
            ELSE IF ChatRaises(chat_fails)
            THEN [h EXCEPT !.pc = "error500", !.status = 500, !.chat_calls = 1,
                           !.chat_error = chat_fails,
                           !.detail = ErrorDetail("provider"),
                           !.path = "completion_failed"]
            ELSE Let(ContextParts(found.chunks), LAMBDA context_parts :
                 Let(Sources(found.chunks), LAMBDA sources :
                 [h EXCEPT !.pc = "log", !.path = "answered", !.chat_calls = 1,
                           !.chat_error = chat_fails,
                           !.metadata = Metadata(context_parts, sources),
                           !.response =
                               RAGResponse(f.message,
                                           Completion(context_parts, f.message),
                                           sources, conversation_id)])))))

(***************************************************************************)
(* utils/validator.py                                                      *)
(***************************************************************************)
\* Embedder.get_model_info, lines 113-124 of embedder.py
get_model_info == [model_name |-> "embed-multilingual-v2.0", dimensions |-> 768]

\* the number validator.py line 58 compares the dimensions with
AssertedDimensions == 1024

\* the sample texts of run_comprehensive_validation, lines 170-175
sample_texts == <<<<"P">>, <<"M">>, <<"S">>, <<"Q">>>>

\* QdrantStorage.collection_exists: False when the listing raises
collection_exists(s, fails) == IF fails THEN FALSE ELSE s.exists

\* QdrantStorage.count_points: 0 when the request raises
count_points(s, fails) ==
    IF fails \/ ~s.exists THEN 0 ELSE Cardinality(s.points)

\* expected_url in url, for strings
IsSubstring(a, b) ==
    \E i \in 0..(Len(b) - Len(a)) : SubSeq(b, i + 1, i + Len(a)) = a

\* the {"error": ...} dictionaries of lines 31, 37 and 66; a dictionary
\* without the key is_valid gives False to .get("is_valid", False)
EmbeddingQualityError ==
    [error |-> TRUE, embedding_count |-> 0, dimensions |-> 0, is_valid |-> FALSE]

\* validator.py line 58
DimensionsValid(dimensions) == dimensions = AssertedDimensions

\* Validator.validate_embedding_quality
validate_embedding_quality(test_texts, failB, failS, dim) ==
    IF Len(test_texts) = 0 THEN EmbeddingQualityError
    ELSE Let(embed_texts(test_texts, failB, failS, dim), LAMBDA e :
         IF e.none \/ Len(e.vectors) = 0 \/ Len(e.vectors) # Len(test_texts)
         THEN EmbeddingQualityError
         ELSE [error |-> FALSE, embedding_count |-> Len(e.vectors),
               dimensions |-> e.vectors[1].dim,
               is_valid |-> DimensionsValid(e.vectors[1].dim)])

\* lines 111-116: 1 when the expected URL is in the url of the top result
\* or of any returned chunk, else 0
Accuracy(expected_url, similar_chunks) ==
    IF IsSubstring(expected_url, similar_chunks[1].url) THEN 1
    ELSE IF \E k \in DOMAIN similar_chunks :
               IsSubstring(expected_url, similar_chunks[k].url)
    THEN 1 ELSE 0

\* One pass of the loop of lines 90-124 for test_queries[i] (i from 0):
\* what the pass found and the metric it appended, if any. failE and failQ
\* are the sets of passes whose embedding and whose search request fail.
QueryPass(s, dim, test_queries, expected_urls, i, failE, failQ, rankeds) ==
    Let(embed_single_text(test_queries[i + 1], i \in failE, dim), LAMBDA e :
    IF e.none
    THEN [query_index |-> i, embedded |-> FALSE, chunks |-> <<>>,
          scored |-> FALSE, accuracy |-> 0]
    ELSE Let(search_similar(s, e.vector, rankeds[i + 1], i \in failQ).chunks,
             LAMBDA similar_chunks :
         IF Len(similar_chunks) = 0
         THEN [query_index |-> i, embedded |-> TRUE, chunks |-> <<>>,
               scored |-> FALSE, accuracy |-> 0]
         ELSE IF Len(expected_urls) > 0 /\ i < Len(expected_urls)
         THEN [query_index |-> i, embedded |-> TRUE, chunks |-> similar_chunks,
               scored |-> TRUE,
               accuracy |-> Accuracy(expected_urls[i + 1], similar_chunks)]
         ELSE [query_index |-> i, embedded |-> TRUE, chunks |-> similar_chunks,
               scored |-> FALSE, accuracy |-> 0]))

RECURSIVE SumAccuracy(_)
SumAccuracy(metrics) ==
    IF Len(metrics) = 0 THEN 0
    ELSE Head(metrics).accuracy + SumAccuracy(Tail(metrics))

\* lines 87 and 126-127: the average as the fraction num / den
AverageRecall(metrics, query_count) ==
    IF Len(metrics) > 0
    THEN [num |-> SumAccuracy(metrics), den |-> Len(metrics)]
    ELSE [num |-> 0, den |-> 1]

\* the {"error": ...} dictionary of line 80
RetrievalError ==
    [error |-> TRUE, query_count |-> 0, successful_retrievals |-> 0,
     accuracy_metrics |-> <<>>, average_recall |-> [num |-> 0, den |-> 1],
     passes |-> <<>>]

\* Validator.validate_retrieval_accuracy; passes keeps what every pass of
\* the loop found
validate_retrieval_accuracy(s, dim, test_queries, expected_urls, failE, failQ, rankeds) ==
    IF Len(test_queries) = 0 THEN RetrievalError
    ELSE Let([k \in DOMAIN test_queries |->
                 QueryPass(s, dim, test_queries, expected_urls, k - 1,
                           failE, failQ, rankeds)], LAMBDA passes :
         Let(SelectSeq(passes, LAMBDA p : p.scored), LAMBDA metrics :
             [error |-> FALSE, query_count |-> Len(test_queries),
              successful_retrievals |->
                  Len(SelectSeq(passes, LAMBDA p : Len(p.chunks) > 0)),
              accuracy_metrics |->
                  [k \in DOMAIN metrics |->
                      [query_index |-> metrics[k].query_index,
                       accuracy |-> metrics[k].accuracy,
                       top_result_url |-> metrics[k].chunks[1].url,
                       expected_url |-> expected_urls[metrics[k].query_index + 1]]],
              average_recall |-> AverageRecall(metrics, Len(test_queries)),
              passes |-> passes]))

\* retrieval_validation: None (line 149)
NoRetrieval ==
    [error |-> FALSE, query_count |-> 0, successful_retrievals |-> 0,
     accuracy_metrics |-> <<>>, average_recall |-> [num |-> 0, den |-> 1],
     passes |-> <<>>]

\* lines 179-182 leaving "unknown" for a check that returned an error
OverallStatusOfResults(embedding_validation) ==
    IF embedding_validation.error THEN "unknown"
    ELSE IF embedding_validation.is_valid THEN "success" ELSE "failed"

\* lines 179-182
OverallStatus(embedding_validation) ==
    IF embedding_validation.is_valid THEN "success" ELSE "failed"

\* lines 187-189: the dictionary returned when an exception reaches the
\* except clause of run_comprehensive_validation
ValidationError ==
    [raised |-> TRUE, collection_exists |-> FALSE, total_points |-> 0,
     tested |-> FALSE, retrieval_validation |-> NoRetrieval,
     embedding_validation |-> EmbeddingQualityError,
     overall_status |-> "error"]

\* lines 153-167: the retrieval test, run when the collection has points;
\* sample is the point client.scroll(limit=1) returns
RetrievalTest(s, dim, exists, total_points, scroll_fails, sample, failE, failQ, ranked) ==
    IF ~exists \/ total_points = 0
    THEN [raised |-> FALSE, tested |-> FALSE, result |-> NoRetrieval]
    ELSE IF scroll_fails
    THEN [raised |-> TRUE, tested |-> FALSE, result |-> NoRetrieval]
    ELSE IF sample.payload.content = <<>>
    THEN [raised |-> FALSE, tested |-> FALSE, result |-> NoRetrieval]
    ELSE [raised |-> FALSE, tested |-> TRUE,
          result |-> validate_retrieval_accuracy(
                         s, dim, <<PySlice(sample.payload.content, 0, SampleLen)>>,
                         <<>>, IF failE THEN {0} ELSE {},
                         IF failQ THEN {0} ELSE {}, <<ranked>>)]

\* lines 146-167 of run_comprehensive_validation: the collection checks
\* and the retrieval test. o gives what the environment does during the
\* call: which requests fail, the point scroll returns and the answer of
\* the search.
CollectionChecks(s, dim, o) ==
    Let(collection_exists(s, o.list_fails), LAMBDA exists :
    Let(IF exists THEN count_points(s, o.count_fails) ELSE 0, LAMBDA total_points :
        [collection_exists |-> exists, total_points |-> total_points,
         test |-> RetrievalTest(s, dim, exists, total_points, o.scroll_fails,
                                o.sample, o.failE, o.failQ, o.ranked)]))

\* lines 176-185: the dictionary returned once validate_embedding_quality
\* has returned embedding_validation
ValidationResults(c, embedding_validation) ==
    [raised |-> FALSE, collection_exists |-> c.collection_exists,
     total_points |-> c.total_points, tested |-> c.test.tested,
     retrieval_validation |-> c.test.result,
     embedding_validation |-> embedding_validation,
     overall_status |-> OverallStatus(embedding_validation)]

\* Validator.run_comprehensive_validation
run_comprehensive_validation(s, dim, o) ==
    Let(CollectionChecks(s, dim, o), LAMBDA c :
    IF c.test.raised THEN ValidationError
    ELSE ValidationResults(c, validate_embedding_quality(sample_texts, o.failB,
                                                         o.failS, dim)))

(***************************************************************************)
(* Actions of the components run alone                                     *)
(***************************************************************************)
vars == <<chunkVars, embedVars, storeVars, pipeVars, askVars>>

ChunkTextEnter ==
    /\ ck.pc = "call"
    /\ ck' = ChunkEnter(ck.text, ck.content_id, ck.url, ck.section_title,
                        ck.hierarchy_path, overlap_num, ck.now)
    /\ UNCHANGED <<chunk_size, overlap_num, sw, embedVars, storeVars, pipeVars, askVars>>

ChunkTextLoop ==
    /\ ck.pc = "loop"
    /\ ck' = ChunkLoopBody(ck, chunk_size)
    /\ UNCHANGED <<chunk_size, overlap_num, sw, embedVars, storeVars, pipeVars, askVars>>

InitChunk ==
    /\ chunk_size \in 1..MaxChunkSize
    /\ overlap_num \in 0..MaxOverlapNum
    /\ \E t \in Texts :
          ck = [ChunkIdle EXCEPT !.pc = "call", !.text = t,
                                 !.content_id = SomeContentId, !.url = SomeUrl]
    /\ sw = ChunkIdle
    /\ provider_dim = 768
    /\ et = EmbedIdle
    /\ StoreUnused
    /\ PipeUnused
    /\ AskUnused

NextChunk == ChunkTextEnter \/ ChunkTextLoop

SpecChunk == InitChunk /\ [][NextChunk]_vars

FairSpecChunk == SpecChunk /\ WF_vars(NextChunk)

\* chunk_text and chunk_with_sliding_window called with the same arguments
\* by one TextChunker
WindowEnterStep ==
    /\ sw.pc = "call"
    /\ sw' = WindowEnter(sw.text, sw.content_id, sw.url, sw.section_title,
                         sw.hierarchy_path, chunk_size, overlap_num, sw.now)
    /\ UNCHANGED <<chunk_size, overlap_num, ck, embedVars, storeVars, pipeVars,
                   askVars>>

WindowLoop ==
    /\ sw.pc = "loop"
    /\ sw' = WindowLoopBody(sw, chunk_size)
    /\ UNCHANGED <<chunk_size, overlap_num, ck, embedVars, storeVars, pipeVars,
                   askVars>>

InitWindow ==
    /\ chunk_size \in 1..MaxChunkSize
    /\ overlap_num \in 0..MaxOverlapNum
    /\ \E t \in Texts :
          /\ ck = [ChunkIdle EXCEPT !.pc = "call", !.text = t,
                                    !.content_id = SomeContentId, !.url = SomeUrl]
          /\ sw = ck
    /\ provider_dim = 768
    /\ et = EmbedIdle
    /\ StoreUnused
    /\ PipeUnused
    /\ AskUnused

NextWindow == ChunkTextEnter \/ ChunkTextLoop \/ WindowEnterStep \/ WindowLoop

SpecWindow == InitWindow /\ [][NextWindow]_vars

\* the texts given to embed_texts alone: chunk texts of one sentence
EmbedTexts == SeqsUpTo({<<"A">>, <<"B">>}, MaxTexts)

EmbedTextsCall ==
    /\ et.pc = "call"
    /\ \E failB \in SUBSET BatchStarts(Len(et.texts)),
          failS \in SUBSET (0..(Len(et.texts) - 1)) :
          LET r == embed_texts(et.texts, failB, failS, provider_dim)
          IN et' = [et EXCEPT !.pc = "returned", !.none = r.none,
                              !.vectors = r.vectors, !.calls = r.calls]
    /\ UNCHANGED <<chunkVars, provider_dim, storeVars, pipeVars, askVars>>

InitEmbed ==
    /\ chunk_size = 1 /\ overlap_num = 0 /\ ck = ChunkIdle /\ sw = ChunkIdle
    /\ StoreUnused
    /\ PipeUnused
    /\ AskUnused
    /\ provider_dim \in ProviderDims
    /\ \E ts \in EmbedTexts : et = [EmbedIdle EXCEPT !.pc = "call", !.texts = ts]

NextEmbed == EmbedTextsCall

SpecEmbed == InitEmbed /\ [][NextEmbed]_vars

\* the chunks and vectors given to the store run alone: a chunk, the same
\* chunk created again later, and another chunk
StoreChunk(sentences, created_at) ==
    [id |-> <<SomeContentId, md5(sentences), 0>>, content_id |-> SomeContentId,
     chunk_text |-> sentences, chunk_index |-> 0,
     token_count |-> Len(sentences), section_title |-> <<"title">>,
     hierarchy_path |-> <<"path", SomeUrl>>,
     overlap_with_next |-> 0, url |-> SomeUrl,
     created_at |-> created_at, lo |-> 0, hi |-> Len(sentences)]

StoreChunks == {StoreChunk(<<"A">>, 0), StoreChunk(<<"A">>, 1), StoreChunk(<<"B">>, 0)}

StoreVectors == {Embedding(<<"A">>, VectorSize), Embedding(<<"B">>, VectorSize)}

\* the vector lists given to save_chunks_batch: the same vector m times
StoreVectorLists ==
    {[k \in 1..m |-> v] : m \in 1..MaxBatchArgs, v \in StoreVectors}

\* a collection left by an earlier run, with one point in it
StaleCollection ==
    [exists |-> TRUE, size |-> VectorSize, distance |-> "Cosine",
     points |-> {PointStruct(StoreChunk(<<"old">>, 0), Embedding(<<"old">>, VectorSize))}]

\* a collection of the same name made by other software: another vector
\* size, another distance, two points
ForeignCollection ==
    [exists |-> TRUE, size |-> 1024, distance |-> "Dot",
     points |-> {PointStruct(StoreChunk(<<"old">>, 0), Embedding(<<"old">>, 1024)),
                 PointStruct(StoreChunk(<<"older">>, 0), Embedding(<<"older">>, 1024))}]

\* the frame of a call that starts now
StoreFrame(op, chunks, embeddings) ==
    [op |-> op, raised |-> "none", chunks |-> chunks, embeddings |-> embeddings,
     before |-> store, calls_before |-> store_calls,
     upserted_before |-> upserted, ops |-> st.ops + 1]

StoreCreateCollection ==
    /\ st.ops < MaxStoreOps
    /\ \E fail_at \in FailPoints :
          LET r == create_collection(store, VectorSize, fail_at)
          IN /\ store' = r.store
             /\ store_calls' = store_calls + r.calls
             /\ upserted' = IF r.store = store THEN upserted ELSE {}
             /\ st' = [StoreFrame("create_collection", <<>>, <<>>)
                          EXCEPT !.raised = r.raised]
    /\ UNCHANGED <<chunkVars, embedVars, pipeVars, askVars>>

StoreSaveChunk ==
    /\ st.ops < MaxStoreOps
    /\ \E chunk \in StoreChunks, embedding \in StoreVectors, fails \in BOOLEAN :
          LET r == save_chunk_to_qdrant(store, chunk, embedding, fails)
          IN /\ store' = r.store
             /\ store_calls' = store_calls + r.calls
             /\ upserted' = IF r.raised = "none" THEN upserted \cup {chunk}
                             ELSE upserted
             /\ st' = [StoreFrame("save_chunk_to_qdrant", <<chunk>>, <<embedding>>)
                          EXCEPT !.raised = r.raised]
    /\ UNCHANGED <<chunkVars, embedVars, pipeVars, askVars>>

StoreSaveBatch ==
    /\ st.ops < MaxStoreOps
    /\ \E chunks \in SeqsUpTo(StoreChunks, MaxBatchArgs) \ {<<>>},
          embeddings \in StoreVectorLists,
          fails \in BOOLEAN :
          LET r == save_chunks_batch(store, chunks, embeddings, fails)
          IN /\ store' = r.store
             /\ store_calls' = store_calls + r.calls
             /\ upserted' = IF r.raised = "none" /\ r.calls > 0
                             THEN upserted \cup
                                  {chunks[k] : k \in 1..Min(Len(chunks), Len(embeddings))}
                             ELSE upserted
             /\ st' = [StoreFrame("save_chunks_batch", chunks, embeddings)
                          EXCEPT !.raised = r.raised]
    /\ UNCHANGED <<chunkVars, embedVars, pipeVars, askVars>>

InitStore ==
    /\ chunk_size = 1 /\ overlap_num = 0 /\ ck = ChunkIdle /\ sw = ChunkIdle
    /\ provider_dim = VectorSize /\ et = EmbedIdle
    /\ store \in {NoCollection, EmptyCollection(VectorSize), StaleCollection}
    /\ store_calls = 0
    /\ upserted = {}
    /\ st = StoreIdle
    /\ PipeUnused
    /\ AskUnused

NextStore == StoreCreateCollection \/ StoreSaveChunk \/ StoreSaveBatch

SpecStore == InitStore /\ [][NextStore]_vars

(***************************************************************************)
(* run_pipeline                                                            *)
(***************************************************************************)
\* a run that goes on after a failed create_collection
AfterCreateCollectionGoesOn(raised) == "discovering"

\* lines 224-227: run_pipeline has no try around self.create_collection(),
\* so an exception of it leaves run_pipeline
AfterCreateCollection(raised) ==
    IF raised = "none" THEN "discovering" ELSE "crashed"

\* lines 224-227: step 1. An exception of create_collection leaves
\* run_pipeline.
PipeCreateCollection ==
    /\ pc = "idle"
    /\ \E fail_at \in FailPoints :
          LET r == create_collection(store, VectorSize, fail_at)
          IN /\ store' = r.store
             /\ store_calls' = store_calls + r.calls
             /\ upserted' = IF r.store = store THEN upserted ELSE {}
             /\ pc' = AfterCreateCollection(r.raised)
    /\ UNCHANGED <<chunkVars, embedVars, st, urls, url_i, processed_count,
                   failed_count, processed_content, ps, history, summary, val, askVars>>

\* lines 229-237: step 2 and the start of the loop
PipeDiscover ==
    /\ pc = "discovering"
    /\ \E us \in UrlLists :
          /\ urls' = us
          /\ pc' = IF Len(us) = 0 THEN "validating" ELSE "processing"
          /\ ps' = IF Len(us) = 0 THEN PsIdle ELSE [PsIdle EXCEPT !.pc = "begin"]
    /\ UNCHANGED <<chunkVars, embedVars, storeVars, url_i, processed_count,
                   failed_count, processed_content, history, summary, val, askVars>>

\* a loop that is left after its first pass
LoopGoesOnNever(i, n) == FALSE

\* line 239, for i, url in enumerate(urls): there is a URL at position i
LoopGoesOn(i, n) == i < n

\* lines 242-250 and 239: process_single_url ended with outcome o (an
\* exception that left it leaves run_pipeline too); the counters, and the
\* next URL or step 4
PipeReturn(o) ==
    /\ history' = Append(history, o)
    /\ IF o.raised # "none"
       THEN /\ pc' = "crashed"
            /\ ps' = PsIdle
            /\ UNCHANGED <<url_i, processed_count, failed_count>>
       ELSE /\ processed_count' = IF o.result THEN processed_count + 1
                                   ELSE processed_count
            /\ failed_count' = IF o.result THEN failed_count ELSE failed_count + 1
            /\ url_i' = url_i + 1
            /\ pc' = IF LoopGoesOn(url_i + 1, Len(urls)) THEN "processing"
                     ELSE "validating"
            /\ ps' = IF LoopGoesOn(url_i + 1, Len(urls))
                     THEN [PsIdle EXCEPT !.pc = "begin"]
                     ELSE PsIdle

\* process_single_url lines 169-188: up to the call of chunk_text, whose
\* loop runs in ChunkTextLoop
ProcessBegin ==
    /\ pc = "processing" /\ ps.pc = "begin"
    /\ \E content \in PageTexts \cup {<<>>} :
       \E url \in {urls[url_i + 1]} :
       \E o \in {ProcessHead(url, content, processed_content)} :
             IF o.reason = "chunk"
             THEN /\ ck' = ChunkEnter(content, o.content_id, url, Title(content),
                                      _get_hierarchy_path(url), overlap_num,
                                      Len(history))
                  /\ ps' = [pc |-> "chunking", url |-> url, content |-> content,
                            content_id |-> o.content_id]
                  /\ UNCHANGED <<pc, url_i, processed_count, failed_count, history>>
             ELSE /\ PipeReturn(ExceptReturnsFalse(o))
                  /\ UNCHANGED ck
    /\ UNCHANGED <<chunk_size, overlap_num, sw, embedVars, storeVars, urls,
                   processed_content, summary, val, askVars>>

\* process_single_url lines 190-216, once chunk_text has returned
ProcessFinish ==
    /\ pc = "processing" /\ ps.pc = "chunking" /\ ck.pc = "returned"
    /\ \E failB \in SUBSET BatchStarts(Len(ck.chunks)),
          fail_k \in 0..Len(ck.chunks) :
       \E failS \in SUBSET {q \in 0..(Len(ck.chunks) - 1) :
                               (q - (q % max_batch_size)) \in failB} :
       \E r \in {ProcessTail(ps.url, ps.content_id, ck.chunks, store,
                               failB, failS, fail_k, provider_dim)} :
       \E o \in {ExceptReturnsFalse([r.outcome EXCEPT !.content = ps.content])} :
             /\ store' = r.store
             /\ store_calls' = store_calls + o.upserts
             /\ upserted' = upserted \cup
                    {ck.chunks[k] : k \in 1..Len(o.written)}
             /\ processed_content' =
                    IF o.marked
                    THEN _mark_as_processed(ps.content_id, processed_content)
                    ELSE processed_content
             /\ PipeReturn(o)
    /\ ck' = ChunkIdle
    /\ UNCHANGED <<chunk_size, overlap_num, sw, embedVars, st, urls, summary, val, askVars>>

\* the answers of the server to the search for a query
RankedFor(s, query, dim) ==
    IF ~s.exists \/ dim # s.size THEN {<<>>}
    ELSE RankedLists(s.points, Embedding(query, dim), TopK)

\* the failures that can happen in embed_texts for n texts: failed batch
\* calls and, for their texts, failed individual calls
EmbedFailures(n) ==
    UNION {{[failB |-> fb, failS |-> fs] :
               fs \in SUBSET {q \in 0..(n - 1) : (q - (q % max_batch_size)) \in fb}} :
           fb \in SUBSET BatchStarts(n)}

\* what the environment can do during run_comprehensive_validation; a
\* request that is not made has no outcome to choose
RetrievalOracle(lf, cf, sf, sample, fe, fq, ranked) ==
    [list_fails |-> lf, count_fails |-> cf, scroll_fails |-> sf, sample |-> sample,
     failE |-> fe, failQ |-> fq, ranked |-> ranked]

NoPoint == PointStruct(StoreChunk(<<>>, 0), NoneVec)

RetrievalOracles(s, dim) ==
    {RetrievalOracle(TRUE, FALSE, FALSE, NoPoint, FALSE, FALSE, <<>>)} \cup
    IF ~s.exists \/ s.points = {}
    THEN {RetrievalOracle(FALSE, cf, FALSE, NoPoint, FALSE, FALSE, <<>>) :
             cf \in BOOLEAN}
    ELSE {RetrievalOracle(FALSE, TRUE, FALSE, NoPoint, FALSE, FALSE, <<>>),
          RetrievalOracle(FALSE, FALSE, TRUE, NoPoint, FALSE, FALSE, <<>>)} \cup
         UNION {{RetrievalOracle(FALSE, FALSE, FALSE, p, TRUE, FALSE, <<>>),
                 RetrievalOracle(FALSE, FALSE, FALSE, p, FALSE, TRUE, <<>>)} \cup
                {RetrievalOracle(FALSE, FALSE, FALSE, p, FALSE, FALSE, ranked) :
                    ranked \in RankedFor(s,
                        PySlice(p.payload.content, 0, SampleLen), dim)} :
                p \in s.points}

ValidationOracles(s, dim) ==
    {[list_fails |-> r.list_fails, count_fails |-> r.count_fails,
      scroll_fails |-> r.scroll_fails, sample |-> r.sample, failE |-> r.failE,
      failQ |-> r.failQ, ranked |-> r.ranked, failB |-> e.failB, failS |-> e.failS] :
        r \in RetrievalOracles(s, dim), e \in EmbedFailures(Len(sample_texts))}

\* lines 252-270: step 4, run_comprehensive_validation on the collection
\* as the run left it, and the summary
PipeValidate ==
    /\ pc = "validating"
    /\ \E evs \in {{validate_embedding_quality(sample_texts, e.failB, e.failS,
                                                provider_dim) :
                       e \in EmbedFailures(Len(sample_texts))}} :
       \E o \in RetrievalOracles(store, provider_dim) :
       \E c \in {CollectionChecks(store, provider_dim, o)} :
       \E v \in IF c.test.raised THEN {ValidationError}
                 ELSE {ValidationResults(c, ev) : ev \in evs} :
          /\ val' = [op |-> "run_comprehensive_validation", result |-> v]
          /\ summary' = Summary(Len(urls), processed_count, failed_count,
                                v.overall_status)
    /\ pc' = "done"
    /\ UNCHANGED <<chunkVars, embedVars, storeVars, urls, url_i,
                   processed_count, failed_count, processed_content, ps, history,
                   askVars>>

Init ==
    /\ chunk_size \in 1..MaxPipeChunkSize
    /\ overlap_num = PipeOverlapNum
    /\ ck = ChunkIdle
    /\ sw = ChunkIdle
    /\ provider_dim \in ProviderDims
    /\ et = EmbedIdle
    /\ store \in {NoCollection, StaleCollection, ForeignCollection}
    /\ store_calls = 0
    /\ upserted = {}
    /\ st = StoreIdle
    /\ pc = "idle"
    /\ urls = <<>>
    /\ url_i = 0
    /\ processed_count = 0
    /\ failed_count = 0
    /\ processed_content = {}
    /\ ps = PsIdle
    /\ history = <<>>
    /\ summary = NoSummary
    /\ val = ValIdle
    /\ AskUnused

Next ==
    \/ PipeCreateCollection
    \/ PipeDiscover
    \/ ProcessBegin
    \/ ChunkTextLoop
    \/ ProcessFinish
    \/ PipeValidate

Spec == Init /\ [][Next]_vars

\* run_pipeline is one sequential thread: it takes its next step
FairSpec == Spec /\ WF_vars(Next)

(***************************************************************************)
(* One URL ingested again into the collection it was ingested into         *)
(***************************************************************************)
\* process_single_url is called again for the URL, by the orchestrator
\* that processed it or by a new one, whose __init__ (lines 40-41) starts
\* with an empty processed_content; the collection is kept
ProcessAgain ==
    /\ pc = "validating"
    /\ Len(history) < MaxPasses
    /\ \E new_instance \in BOOLEAN :
          /\ processed_content' = IF new_instance THEN {} ELSE processed_content
          /\ processed_count' = IF new_instance THEN 0 ELSE processed_count
          /\ failed_count' = IF new_instance THEN 0 ELSE failed_count
    /\ pc' = "processing"
    /\ url_i' = 0
    /\ ps' = [PsIdle EXCEPT !.pc = "begin"]
    /\ UNCHANGED <<chunkVars, embedVars, storeVars, urls, history, summary, val,
                   askVars>>

\* the state of a run after its collection was created and one URL was
\* discovered
InitReingest ==
    /\ chunk_size \in 1..MaxPipeChunkSize
    /\ overlap_num = PipeOverlapNum
    /\ ck = ChunkIdle
    /\ sw = ChunkIdle
    /\ provider_dim = VectorSize
    /\ et = EmbedIdle
    /\ store = EmptyCollection(VectorSize)
    /\ store_calls = 0
    /\ upserted = {}
    /\ st = StoreIdle
    /\ pc = "processing"
    /\ urls \in {<<u>> : u \in Urls}
    /\ url_i = 0
    /\ processed_count = 0
    /\ failed_count = 0
    /\ processed_content = {}
    /\ ps = [PsIdle EXCEPT !.pc = "begin"]
    /\ history = <<>>
    /\ summary = NoSummary
    /\ val = ValIdle
    /\ AskUnused

NextReingest ==
    \/ ProcessBegin
    \/ ChunkTextLoop
    \/ ProcessFinish
    \/ ProcessAgain

SpecReingest == InitReingest /\ [][NextReingest]_vars

(***************************************************************************)
(* The ask endpoint                                                        *)
(***************************************************************************)
Requests == 1..MaxRequests

\* the synchronous part of ask_question: up to the first await
AskBegin(r) ==
    /\ reqs[r].pc = "new"
    /\ \E q \in {Embedding(reqs[r].message, provider_dim)} :
       \E ranked \in RankedLists(store.points, q, TopK) :
       \E embed_fails \in BOOLEAN, search_fails \in BOOLEAN, chat_fails \in BOOLEAN :
       \E f \in {AskHead(reqs[r], store, next_uuid, embed_fails, ranked,
                          search_fails, chat_fails, provider_dim)} :
          /\ reqs' = [reqs EXCEPT ![r] =
                         IF f.pc = "log" THEN [f EXCEPT !.log_calls = 1] ELSE f]
          /\ next_uuid' = IF IdMissing(reqs[r].given_id) THEN next_uuid + 1
                          ELSE next_uuid
    /\ UNCHANGED <<chunkVars, embedVars, storeVars, pipeVars, conv_log, pool,
                   borrowed, hist>>

\* a pool that hands out a connection whatever it has lent
PoolHasFreeAlways(n) == TRUE

\* pool.acquire() waits while max_size connections are acquired
PoolHasFree(n) == n < PoolMaxSize

\* the end of an async with block that keeps the connection of a failed
\* statement
PoolReleaseOnSuccess(n, statement_failed) == IF statement_failed THEN n ELSE n - 1

\* the end of the async with blocks of lines 90 and 124: the connection
\* goes back to the pool, whether the statement raised or not
PoolRelease(n, statement_failed) == n - 1

\* the frame of a get_conversation request that has not started
NewHistCall(conversation_id) ==
    [pc |-> "new", conversation_id |-> conversation_id, rows |-> <<>>,
     outcome |-> "none", history |-> <<>>, status |-> 0]

\* lines 137-147: the dictionary made of a row
HistoryEntry(row, k) ==
    [conversation_id |-> row.conversation_id, user_message |-> row.user_message,
     bot_response |-> row.bot_response, timestamp |-> k,
     sources |-> row.sources, metadata |-> row.metadata]

\* the SELECT of lines 126-135 on the rows of the table (oldest first, a
\* row's position standing for its timestamp): the rows of the
\* conversation, newest first, at most limit of them
RECURSIVE SelectHistory(_, _, _, _)
SelectHistory(rows, k, conversation_id, limit) ==
    IF k = 0 \/ limit = 0 THEN <<>>
    ELSE IF rows[k].conversation_id = conversation_id
    THEN <<HistoryEntry(rows[k], k)>> \o
         SelectHistory(rows, k - 1, conversation_id, limit - 1)
    ELSE SelectHistory(rows, k - 1, conversation_id, limit)

\* get_conversation_history lines 119-124: the check of the pool and the
\* acquire, which waits for a free connection and may raise
HistAcquire(h) ==
    /\ hist[h].pc = "new"
    /\ IF pool = "none"
       THEN /\ hist' = [hist EXCEPT ![h].pc = "returned", ![h].status = 200,
                                     ![h].outcome = "disabled"]
            /\ UNCHANGED borrowed
       ELSE /\ PoolHasFree(borrowed)
            /\ \E acquire_fails \in BOOLEAN :
                  IF acquire_fails
                  THEN /\ hist' = [hist EXCEPT ![h].pc = "returned",
                                                ![h].status = 200,
                                                ![h].outcome = "acquire_failed"]
                       /\ UNCHANGED borrowed
                  ELSE /\ hist' = [hist EXCEPT ![h].pc = "fetch"]
                       /\ borrowed' = borrowed + 1
    /\ UNCHANGED <<chunkVars, embedVars, storeVars, pipeVars, reqs, conv_log,
                   pool, next_uuid>>

\* lines 125-135: the SELECT, which may raise
HistFetch(h) ==
    /\ hist[h].pc = "fetch"
    /\ \E fetch_fails \in BOOLEAN :
          hist' = [hist EXCEPT ![h].pc = "release",
                     ![h].outcome = IF fetch_fails THEN "fetch_failed" ELSE "fetched",
                     ![h].rows = IF fetch_fails THEN <<>>
                                 ELSE SelectHistory(conv_log, Len(conv_log),
                                                    hist[h].conversation_id,
                                                    HistoryLimit)]
    /\ UNCHANGED <<chunkVars, embedVars, storeVars, pipeVars, reqs, conv_log,
                   pool, borrowed, next_uuid>>

\* the end of the async with block of line 124, the return of lines 137-150
\* and the response of api/main.py line 270
HistReleaseAndRespond(h) ==
    /\ hist[h].pc = "release"
    /\ borrowed' = PoolRelease(borrowed, hist[h].outcome = "fetch_failed")
    /\ hist' = [hist EXCEPT ![h].pc = "returned", ![h].status = 200,
                            ![h].history = hist[h].rows]
    /\ UNCHANGED <<chunkVars, embedVars, storeVars, pipeVars, reqs, conv_log,
                   pool, next_uuid>>

\* an except clause that raises the exception again
LogExceptRaises(raised) == raised

\* log_interaction lines 105-106: the except clause logs the exception and
\* raises nothing
LogExcept(raised) == "none"

\* ask_question after the await of log_interaction: lines 140 and 209 return
\* the response, line 213 answers an exception with status 500
AskAfterLog(f, raised) ==
    IF raised = "none" THEN [f EXCEPT !.pc = "responded", !.status = 200]
    ELSE [f EXCEPT !.pc = "error500", !.status = 500,
                   !.detail = ErrorDetail(raised)]

\* log_interaction lines 85-90: the check of the pool and the acquire, which
\* waits for a free connection and may raise
LogAcquire(r) ==
    /\ reqs[r].pc = "log"
    /\ IF pool = "none"
       THEN /\ reqs' = [reqs EXCEPT ![r] =
                           AskAfterLog([@ EXCEPT !.log_outcome = "disabled"], "none")]
            /\ UNCHANGED borrowed
       ELSE /\ PoolHasFree(borrowed)
            /\ \E acquire_fails \in BOOLEAN :
                  IF acquire_fails
                  THEN /\ reqs' = [reqs EXCEPT ![r] =
                                      AskAfterLog([@ EXCEPT !.log_outcome = "acquire_failed"],
                                                  LogExcept("provider"))]
                       /\ UNCHANGED borrowed
                  ELSE /\ reqs' = [reqs EXCEPT ![r].pc = "insert"]
                       /\ borrowed' = borrowed + 1
    /\ UNCHANGED <<chunkVars, embedVars, storeVars, pipeVars, conv_log, pool,
                   hist, next_uuid>>

\* a handler that keeps what it logs in variables of the module, where
\* they are those of the first request
RequestOfCallShared(r) == 1

\* api/main.py lines 132-138 and 195-206: log_interaction is given the
\* local variables of the call of ask_question that makes it
RequestOfCall(r) == r

\* log_interaction lines 91-106: the INSERT, which may raise
LogExecute(r) ==
    /\ reqs[r].pc = "insert"
    /\ \E insert_fails \in BOOLEAN :
          IF insert_fails
          THEN /\ reqs' = [reqs EXCEPT ![r].pc = "release",
                                        ![r].log_outcome = "insert_failed"]
               /\ UNCHANGED conv_log
          ELSE /\ reqs' = [reqs EXCEPT ![r].pc = "release",
                                        ![r].log_outcome = "inserted"]
               /\ \E f \in {reqs[RequestOfCall(r)]} :
                     conv_log' = Append(conv_log,
                         ConversationRow(f.conversation_id, f.message,
                                         f.response.answer, f.response.sources,
                                         f.user_ip, f.metadata, r))
    /\ UNCHANGED <<chunkVars, embedVars, storeVars, pipeVars, pool, borrowed,
                   hist, next_uuid>>

\* the end of the async with block of line 90, and lines 140 and 209: the
\* connection goes back to the pool and the response is returned
LogReleaseAndRespond(r) ==
    /\ reqs[r].pc = "release"
    /\ borrowed' = PoolRelease(borrowed, reqs[r].log_outcome = "insert_failed")
    /\ reqs' = [reqs EXCEPT ![r] =
                   AskAfterLog(@, IF @.log_outcome = "insert_failed"
                                  THEN LogExcept("provider") ELSE "none")]
    /\ UNCHANGED <<chunkVars, embedVars, storeVars, pipeVars, conv_log, pool,
                   hist, next_uuid>>

\* the ChatMessage bodies: a message, with or without a conversation_id (the
\* requests are taken in the order of this list, which loses no interleaving)
RequestKinds ==
    <<[message |-> <<"A">>, conversation_id |-> NoId],
      [message |-> <<"A">>, conversation_id |-> <<"given", 1>>],
      [message |-> <<"B">>, conversation_id |-> EmptyId]>>

\* a collection with the chunks of an ingested page, and a point whose
\* payload has no content
AskCollection ==
    [exists |-> TRUE, size |-> VectorSize, distance |-> "Cosine",
     points |-> {PointStruct(StoreChunk(t, 0), Embedding(t, VectorSize)) :
                    t \in {<<>>, <<"A">>, <<"B">>, <<"A", "B">>}}]

InitAsk ==
    /\ chunk_size = 1 /\ overlap_num = 0 /\ ck = ChunkIdle /\ sw = ChunkIdle
    /\ provider_dim = VectorSize /\ et = EmbedIdle
    /\ store \in {NoCollection, EmptyCollection(VectorSize), AskCollection}
    /\ store_calls = 0
    /\ upserted = {}
    /\ st = StoreIdle
    /\ PipeUnused
    /\ \E kinds \in [Requests -> 1..Len(RequestKinds)] :
          /\ \A r \in Requests : r > 1 => kinds[r - 1] <= kinds[r]
          /\ reqs = [r \in Requests |->
                       NewRequest(RequestKinds[kinds[r]].message,
                                  RequestKinds[kinds[r]].conversation_id,
                                  IF r % 2 = 1 THEN <<"ip">> ELSE <<>>)]
    /\ conv_log = <<>>
    /\ pool \in {"none", "open"}
    /\ borrowed = 0
    /\ hist = <<>>
    /\ next_uuid = 0

NextAsk ==
    \E r \in Requests :
        AskBegin(r) \/ LogAcquire(r) \/ LogExecute(r) \/ LogReleaseAndRespond(r)

SpecAsk == InitAsk /\ [][NextAsk]_vars

(***************************************************************************)
(* The conversation log shared by ask and get_conversation requests        *)
(***************************************************************************)
HistCalls == 1..MaxHistCalls

\* requests of one conversation against an empty collection, and the
\* get_conversation requests for that conversation
InitLog ==
    /\ chunk_size = 1 /\ overlap_num = 0 /\ ck = ChunkIdle /\ sw = ChunkIdle
    /\ provider_dim = VectorSize /\ et = EmbedIdle
    /\ store = EmptyCollection(VectorSize)
    /\ store_calls = 0
    /\ upserted = {}
    /\ st = StoreIdle
    /\ PipeUnused
    /\ reqs = [r \in Requests |->
                 NewRequest(<<"A">>, <<"given", 1>>,
                            IF r % 2 = 1 THEN <<"ip">> ELSE <<>>)]
    /\ conv_log = <<>>
    /\ pool \in {"none", "open"}
    /\ borrowed = 0
    /\ hist = [h \in HistCalls |-> NewHistCall(<<"given", 1>>)]
    /\ next_uuid = 0

NextLog ==
    \/ \E r \in Requests :
           AskBegin(r) \/ LogAcquire(r) \/ LogExecute(r) \/ LogReleaseAndRespond(r)
    \/ \E h \in HistCalls :
           HistAcquire(h) \/ HistFetch(h) \/ HistReleaseAndRespond(h)

SpecLog == InitLog /\ [][NextLog]_vars

(***************************************************************************)
(* The validator run alone                                                 *)
(***************************************************************************)
\* the test texts, the test queries and the expected URLs of the calls
TestTexts == SeqsUpTo({<<"P">>, <<"M">>}, MaxTexts)
QueryTexts == {<<"A">>, <<"B">>}
TestQueries == SeqsUpTo(QueryTexts, MaxQueries)
ExpectedUrls == SeqsUpTo({<<"u">>, <<"v">>}, MaxQueries)

\* the chunk of a page of another URL
ValChunk(url, sentences) ==
    [StoreChunk(sentences, 0) EXCEPT !.url = url, !.hierarchy_path = <<"path", url>>]

\* a collection whose points differ in their score for every query of
\* TestQueries and of which a search returns all but one
ValCollection(size) ==
    [exists |-> TRUE, size |-> size, distance |-> "Cosine",
     points |-> {PointStruct(ValChunk(c.url, c.text), Embedding(c.text, size)) :
                   c \in {[url |-> <<"w">>, text |-> <<"A">>],
                          [url |-> <<"v">>, text |-> <<"B">>],
                          [url |-> <<"u">>, text |-> <<"A", "B">>],
                          [url |-> <<"u", "A">>, text |-> <<"A", "B", "C">>],
                          [url |-> <<"u">>, text |-> <<"A", "B", "C", "D">>],
                          [url |-> <<"u">>, text |-> <<"A", "B", "C", "D", "E">>]}}]

ValEmbeddingQuality ==
    /\ val.op = "none"
    /\ \E test_texts \in TestTexts :
       \E e \in EmbedFailures(Len(test_texts)) :
          val' = [op |-> "validate_embedding_quality", test_texts |-> test_texts,
                  result |-> validate_embedding_quality(test_texts, e.failB,
                                                        e.failS, provider_dim)]
    /\ UNCHANGED <<chunkVars, embedVars, storeVars, pc, urls, url_i,
                   processed_count, failed_count, processed_content, ps, history,
                   summary, askVars>>

ValRetrievalAccuracy ==
    /\ val.op = "none"
    /\ \E answers \in {[q \in QueryTexts |-> RankedFor(store, q, provider_dim)]} :
       \E test_queries \in TestQueries, expected_urls \in ExpectedUrls :
       \E rankeds \in [DOMAIN test_queries -> UNION Range(answers)] :
       /\ \A k \in DOMAIN test_queries : rankeds[k] \in answers[test_queries[k]]
       /\ \E failE \in SUBSET (0..(Len(test_queries) - 1)) :
          \E failQ \in SUBSET ((0..(Len(test_queries) - 1)) \ failE) :
             val' = [op |-> "validate_retrieval_accuracy",
                     test_queries |-> test_queries,
                     expected_urls |-> expected_urls,
                     result |-> validate_retrieval_accuracy(
                                    store, provider_dim, test_queries,
                                    expected_urls, failE, failQ, rankeds)]
    /\ UNCHANGED <<chunkVars, embedVars, storeVars, pc, urls, url_i,
                   processed_count, failed_count, processed_content, ps, history,
                   summary, askVars>>

ValComprehensive ==
    /\ val.op = "none"
    /\ \E o \in ValidationOracles(store, provider_dim) :
          val' = [op |-> "run_comprehensive_validation",
                  result |-> run_comprehensive_validation(store, provider_dim, o)]
    /\ UNCHANGED <<chunkVars, embedVars, storeVars, pc, urls, url_i,
                   processed_count, failed_count, processed_content, ps, history,
                   summary, askVars>>

InitValidate ==
    /\ chunk_size = 1 /\ overlap_num = 0 /\ ck = ChunkIdle /\ sw = ChunkIdle
    /\ provider_dim \in ProviderDims /\ et = EmbedIdle
    /\ store \in {NoCollection, EmptyCollection(VectorSize), StaleCollection,
                  ForeignCollection, ValCollection(VectorSize)}
    /\ store_calls = 0 /\ upserted = {} /\ st = StoreIdle
    /\ PipeUnused
    /\ AskUnused

NextValidate ==
    \/ ValEmbeddingQuality
    \/ ValRetrievalAccuracy
    \/ ValComprehensive

SpecValidate == InitValidate /\ [][NextValidate]_vars

(***************************************************************************)
(* Claims about chunk_text                                                 *)
(***************************************************************************)
\* C4: chunk_text terminates and returns a finite list of chunks for every
\* text, every chunkSize >= 1 and every overlap fraction in [0,1),
\* including when floor(totalSentences * overlap) >= chunkSize.
C4_ChunkTextTerminates ==
    (overlap_num < OverlapDen) => <>(ck.pc = "returned")

\* the sentences of chunk k that it does not share with chunk k-1
OwnPart(cs, k) ==
    LET shared == IF k = 1 \/ cs[k-1].hi <= cs[k].lo THEN 0
                  ELSE Min(cs[k-1].hi, cs[k].hi) - cs[k].lo
    IN SubSeq(cs[k].chunk_text, shared + 1, Len(cs[k].chunk_text))

RECURSIVE ConcatOwnParts(_, _)
ConcatOwnParts(cs, k) ==
    IF k = 0 THEN <<>> ELSE ConcatOwnParts(cs, k - 1) \o OwnPart(cs, k)

ChunksCover(sentences, cs) ==
    /\ \A i \in 1..Len(sentences) :
          \E k \in 1..Len(cs) : cs[k].lo < i /\ i <= cs[k].hi
    /\ \A k \in 1..Len(cs) :
          cs[k].chunk_text = SubSeq(sentences, cs[k].lo + 1, cs[k].hi)
    /\ \A k \in 1..(Len(cs) - 1) :
          cs[k].lo <= cs[k+1].lo /\ cs[k].hi <= cs[k+1].hi
    /\ ConcatOwnParts(cs, Len(cs)) = sentences

C13_OverlapOfWholeDocument ==
    /\ [](ck.pc = "loop" =>
            ck.overlap_sentences =
                (Len(_split_into_sentences(ck.text)) * overlap_num) \div OverlapDen)
    /\ [][(ck.pc = "loop" /\ Len(ck'.chunks) = Len(ck.chunks) + 1) =>
            LET n == Len(ck.sentences)
                current_end == Min(ck.current_start + chunk_size, n)
            IN /\ current_end < n =>
                     ck'.current_start = current_end - ck.overlap_sentences
               /\ current_end >= n => ck'.current_start = current_end]_vars
    /\ []((ck.text = FourSentences /\ chunk_size = 2
                /\ 2 * overlap_num = OverlapDen /\ ck.pc # "call") =>
            /\ ck.overlap_sentences = 2
            /\ ck.current_start = 0
            /\ \A k \in DOMAIN ck.chunks :
                  /\ ck.chunks[k].chunk_text = <<"A", "B">>
                  /\ ck.chunks[k].lo = 0 /\ ck.chunks[k].hi = 2
                  /\ ck.chunks[k].chunk_index = k - 1)

\* "A. B. C. D." with chunkSize 2 and overlap 0.5, after three chunks
C13_Witness ==
    /\ ck.text = FourSentences /\ chunk_size = 2 /\ 2 * overlap_num = OverlapDen
    /\ Len(ck.chunks) >= 3
    /\ ck.chunks[3].lo = 0

\* the number of sentences chunk k of cs has in common with chunk k + 1
SharedWithNext(cs, k) ==
    IF k >= Len(cs) THEN 0
    ELSE Cardinality({i \in (cs[k].lo + 1)..cs[k].hi :
                        cs[k+1].lo < i /\ i <= cs[k+1].hi})

\* C14: for every chunk chunk_text returns, overlap_with_next is the number
\* of sentences the chunk shares with the following chunk of the result,
\* and 0 for the last chunk.
C14_OverlapWithNextIsShared ==
    ck.pc = "returned" =>
        \A k \in DOMAIN ck.chunks :
            ck.chunks[k].overlap_with_next = SharedWithNext(ck.chunks, k)

(***************************************************************************)
(* Claims about embed_texts                                                *)
(***************************************************************************)
\* the positions of the input that some provider call embedded successfully
EmbeddedPositions(calls) ==
    {p \in 0..(MaxTexts + 1) :
        \E c \in DOMAIN calls : calls[c].ok /\ p \in Range(calls[c].positions)}

RECURSIVE VectorsOf(_, _, _, _)
VectorsOf(texts, ok, p, dim) ==
    IF p >= Len(texts) THEN <<>>
    ELSE (IF p \in ok THEN <<Embedding(texts[p + 1], dim)>> ELSE <<>>)
         \o VectorsOf(texts, ok, p + 1, dim)

\* C7: for a non-empty input list embed_texts returns exactly the vectors of
\* the texts that a batch call or an individual fallback call embedded, in
\* input order and without placeholders; so the output is no longer than
\* the input, and as long iff every text was embedded.
C7_EmbedTextsResult ==
    (et.pc = "returned" /\ Len(et.texts) > 0) =>
        LET ok == EmbeddedPositions(et.calls)
        IN /\ ~et.none
           /\ et.vectors = VectorsOf(et.texts, ok, 0, provider_dim)
           /\ Len(et.vectors) <= Len(et.texts)
           /\ (Len(et.vectors) = Len(et.texts)) <=> (ok = 0..(Len(et.texts) - 1))

\* two batches, the first failed with one of its texts failing again
\* individually, so the result is shorter than the input
C7_Witness ==
    /\ et.pc = "returned"
    /\ Len(et.texts) > max_batch_size
    /\ \E c \in DOMAIN et.calls : et.calls[c].single /\ ~et.calls[c].ok
    /\ \E c \in DOMAIN et.calls : et.calls[c].single /\ et.calls[c].ok
    /\ Len(et.vectors) < Len(et.texts)

\* the calls of the log that carried the text at position p
CallsWith(calls, p, single) ==
    {c \in DOMAIN calls :
        calls[c].single = single /\ p \in Range(calls[c].positions)}

\* C11: within one embed_texts call each text is submitted to the provider
\* at most twice, once in its batch and at most once individually; the
\* individual attempt is made only for the texts of a batch whose batch call
\* failed, after that call, and a text whose individual attempt failed is
\* not attempted again.
C11_SingleRetryPass ==
    et.pc = "returned" =>
        \A p \in 0..(Len(et.texts) - 1) :
            LET inBatch == CallsWith(et.calls, p, FALSE)
                alone == CallsWith(et.calls, p, TRUE)
            IN /\ Cardinality(inBatch) <= 1
               /\ Cardinality(alone) <= 1
               /\ \A c \in alone :
                     /\ et.calls[c].positions = <<p>>
                     /\ \E b \in inBatch : b < c /\ ~et.calls[b].ok
               /\ \A c \in alone : ~et.calls[c].ok =>
                     \A d \in DOMAIN et.calls :
                        d > c => p \notin Range(et.calls[d].positions)

\* a failed batch of two texts, both failing again individually, followed
\* by a batch that succeeded
C11_Witness ==
    /\ et.pc = "returned"
    /\ Len(et.calls) >= 4
    /\ ~et.calls[1].ok /\ ~et.calls[2].ok /\ ~et.calls[3].ok
    /\ et.calls[2].single /\ et.calls[3].single
    /\ \E c \in DOMAIN et.calls : c > 3 /\ et.calls[c].ok /\ ~et.calls[c].single

\* the positions whose individual call failed
FailedAlone(calls) ==
    {p \in 0..(MaxTexts + 1) :
        \E c \in DOMAIN calls :
            calls[c].single /\ ~calls[c].ok /\ p \in Range(calls[c].positions)}

\* embed_single_text applied to each text of a batch in turn, keeping the
\* vectors it returns
RECURSIVE EachAlone(_, _, _, _, _)
EachAlone(texts, pos, j, failS, dim) ==
    IF j > Len(pos) THEN <<>>
    ELSE Let(embed_single_text(texts[pos[j] + 1], pos[j] \in failS, dim),
             LAMBDA e : IF e.none THEN <<>> ELSE <<e.vector>>)
         \o EachAlone(texts, pos, j + 1, failS, dim)

\* the part of the result of embed_texts that comes from the batch of the
\* positions pos
VectorsOfBatch(pos) ==
    LET ok == EmbeddedPositions(et.calls)
        before == Cardinality({p \in ok : p < pos[1]})
        here == Cardinality(ok \cap Range(pos))
    IN PySlice(et.vectors, before, before + here)

\* C12: with a deterministic provider, the vectors embed_texts returns for
\* a batch whose batch call failed are the vectors embed_single_text
\* returns for the texts of the batch that can be embedded individually, in
\* the same order.
C12_BatchFallbackEquivalence ==
    et.pc = "returned" =>
        \A c \in DOMAIN et.calls :
            (~et.calls[c].single /\ ~et.calls[c].ok) =>
                VectorsOfBatch(et.calls[c].positions) =
                    EachAlone(et.texts, et.calls[c].positions, 1,
                              FailedAlone(et.calls), provider_dim)

\* a succeeded batch and a failed batch with two different texts, one of
\* which can be embedded individually and one of which cannot
C12_Witness ==
    /\ et.pc = "returned"
    /\ \E c \in DOMAIN et.calls : ~et.calls[c].single /\ et.calls[c].ok
    /\ \E c \in DOMAIN et.calls :
          /\ ~et.calls[c].single /\ ~et.calls[c].ok
          /\ \E p \in Range(et.calls[c].positions) :
             \E q \in Range(et.calls[c].positions) :
                /\ et.texts[p + 1] # et.texts[q + 1]
                /\ p \in FailedAlone(et.calls)
                /\ q \in EmbeddedPositions(et.calls)

(***************************************************************************)
(* Claims about QdrantStorage                                              *)
(***************************************************************************)
\* the stored points that hold chunk c: same contentId, chunk text and index
PointsOf(c) ==
    {p \in store.points : /\ p.payload.content_id = c.content_id
                          /\ p.payload.content = c.chunk_text
                          /\ p.payload.chunk_index = c.chunk_index}

SameChunk(c, d) == c.id = d.id

\* C6: upserting the same ContentChunk (same chunk id) twice, through
\* save_chunk_to_qdrant or save_chunks_batch in any combination, leaves
\* exactly one stored point for it, and the point count after the second
\* upsert is the count after the first.
C6_IdempotentPointIdentity ==
    /\ \A c \in upserted : Cardinality(PointsOf(c)) = 1
    /\ ( /\ st.op \in {"save_chunk_to_qdrant", "save_chunks_batch"}
         /\ st.raised = "none"
         /\ \A k \in DOMAIN st.chunks :
               \E d \in st.upserted_before : SameChunk(st.chunks[k], d) )
       => Cardinality(store.points) = Cardinality(st.before.points)

\* a chunk stored by one of the two operations was stored again by the
\* other, with a later creation time
C6_Witness ==
    /\ st.op = "save_chunks_batch"
    /\ st.raised = "none"
    /\ st.before.points # {}
    /\ \E k \in DOMAIN st.chunks :
          \E d \in st.upserted_before :
              SameChunk(st.chunks[k], d) /\ d.created_at # st.chunks[k].created_at

\* C10: save_chunks_batch called with len(chunks) # len(embeddings) fails
\* with the size-mismatch error before any request to the vector store and
\* leaves the stored collection unchanged.
C10_BatchSizeMismatch ==
    (st.op = "save_chunks_batch" /\ Len(st.chunks) # Len(st.embeddings)) =>
        /\ st.raised = "ValueError"
        /\ store_calls = st.calls_before
        /\ store = st.before

\* 3 chunks and 2 vectors given to save_chunks_batch on a collection that
\* would have accepted them
C10_Witness ==
    /\ st.op = "save_chunks_batch"
    /\ Len(st.chunks) = 3 /\ Len(st.embeddings) = 2
    /\ st.before.exists
    /\ st.raised = "ValueError"

(***************************************************************************)
(* Claims about run_pipeline and process_single_url                        *)
(***************************************************************************)
\* C1: every (chunk, vector) pair process_single_url upserts pairs the chunk
\* with the vector the provider returned for that chunk's own chunk_text;
\* and when embed_texts returns None, an empty list or a list whose length
\* is not the number of chunks, no upsert is made for that URL and the
\* result is False. (The provider returns one vector per submitted text, in
\* order.)
C1_EmbeddingChunkAlignment ==
    \A h \in DOMAIN history :
        LET o == history[h]
        IN /\ \A k \in DOMAIN o.written :
                 o.written[k].vector =
                     Embedding(o.written[k].payload.content, provider_dim)
           /\ (o.embedded /\ (o.embed_none \/ o.n_vectors = 0
                                \/ o.n_vectors # o.n_chunks))
                 => (o.upserts = 0 /\ o.written = <<>> /\ ~o.result)

\* one URL lost a vector of its chunks and another stored two chunks
C1_Witness ==
    /\ \E h \in DOMAIN history :
          history[h].n_vectors > 0 /\ history[h].n_vectors < history[h].n_chunks
    /\ \E h \in DOMAIN history : Len(history[h].written) >= 2

CountResults(b) == Cardinality({h \in DOMAIN history : history[h].result = b})

\* C2: process_single_url never raises, a failure of extraction, chunking,
\* embedding or upsert becomes the result False; run_pipeline calls it once
\* for every discovered URL, in list order, whatever the earlier outcomes,
\* and counts every False as one failed URL.
C2_FailureIsolation ==
    /\ \A h \in DOMAIN history :
          /\ history[h].raised = "none"
          /\ h <= Len(urls) /\ history[h].url = urls[h]
          /\ history[h].reason \in {"no_content", "no_chunks", "mismatch",
                                     "upsert_failed"} => ~history[h].result
    /\ Len(history) = url_i
    /\ failed_count = CountResults(FALSE)
    /\ processed_count = CountResults(TRUE)
    /\ pc \in {"validating", "done"} => Len(history) = Len(urls)
    /\ pc = "crashed" => history = <<>>

\* a finished run whose first URL failed in an upsert and whose next URL
\* was stored
C2_Witness ==
    /\ pc = "done"
    /\ Len(history) >= 2
    /\ history[1].reason = "upsert_failed"
    /\ Len(history[1].written) >= 1
    /\ history[2].reason = "ok"
    /\ summary.failed = 1

\* C3: every run whose collection creation succeeds eventually reaches
\* Done, for any discovered URL list, any per-URL outcome, any page text,
\* any chunkSize >= 1 and overlap in [0,1).
C3_RunReachesDone == [](pc = "discovering" => <>(pc = "done"))

\* C8: within one run, once a contentId has been marked processed, a later
\* URL whose content yields the same contentId is skipped: it is not
\* chunked, not embedded, not upserted, and its result is True.
C8_SkipProcessed ==
    /\ \A j \in DOMAIN history : \A k \in DOMAIN history :
          (j < k /\ history[j].marked
                 /\ history[k].content_id = history[j].content_id)
          => /\ history[k].reason = "skipped"
             /\ ~history[k].chunked /\ ~history[k].embedded
             /\ history[k].upserts = 0
             /\ history[k].result
    /\ \A j \in DOMAIN history :
          (history[j].marked /\ ps.pc = "chunking")
          => ps.content_id # history[j].content_id

\* a URL was stored and the same content id came again from another URL
C8_Witness ==
    \E j \in DOMAIN history : \E k \in DOMAIN history :
        /\ j < k /\ history[j].marked
        /\ history[k].content_id = history[j].content_id
        /\ history[k].url # history[j].url
        /\ processed_count = 2

\* the points the calls of process_single_url of this run have written
WrittenInRun == UNION {Range(history[h].written) : h \in DOMAIN history}

RECURSIVE UpsertRequests(_)
UpsertRequests(h) == IF h = 0 THEN 0 ELSE UpsertRequests(h - 1) + history[h].upserts

\* C15: after create_collection returned successfully the configured
\* collection exists with the requested dimension and cosine distance and
\* holds no point, whether or not a collection of that name existed before,
\* with whatever points; so every point present during and after a run was
\* written during that run.
C15_FreshCollection ==
    /\ pc = "discovering" =>
          store = [exists |-> TRUE, size |-> VectorSize, distance |-> "Cosine",
                   points |-> {}]
    /\ pc \in {"discovering", "processing", "validating", "done"} =>
          /\ store.exists /\ store.size = VectorSize /\ store.distance = "Cosine"
          /\ store.points \subseteq WrittenInRun

\* a finished run that found a collection (three requests to create the new
\* one) and stored points
C15_Witness ==
    /\ pc = "done"
    /\ store.points # {}
    /\ store_calls >= 3 + UpsertRequests(Len(history))

\* C16: when create_collection raises (the listing, the deletion or the
\* creation fails) run_pipeline propagates the error: no URL is discovered,
\* extracted, chunked, embedded or upserted, no summary is produced, and the
\* run does nothing more.
C16_CreationFailureIsFatal ==
    /\ [](pc = "crashed" =>
            /\ urls = <<>> /\ url_i = 0 /\ history = <<>>
            /\ ps = PsIdle /\ ck = ChunkIdle
            /\ processed_count = 0 /\ failed_count = 0
            /\ processed_content = {}
            /\ summary = NoSummary
            /\ store_calls <= 3
            /\ WrittenInRun = {})
    /\ [][pc = "idle" =>
            \/ pc' = "crashed" /\ (~store'.exists \/ store' = store)
            \/ pc' = "discovering" /\ store'.exists /\ store'.points = {}]_vars
    /\ [][pc # "crashed"]_vars

\* the creation failed after the collection found was deleted
C16_Witness ==
    /\ pc = "crashed"
    /\ store_calls = 3
    /\ ~store.exists

(***************************************************************************)
(* Claims about the ask endpoint                                           *)
(***************************************************************************)
\* the rows of the conversation log that request r appended
RowsOf(r) == {k \in DOMAIN conv_log : conv_log[k].req = r}

Ended(r) == reqs[r].pc \in {"responded", "error500"}

\* C9 as stated: every call to the ask endpoint results in exactly one
\* append to the conversation log, never zero and never two.
C9_ExactlyOneAppend ==
    \A r \in DOMAIN reqs : Ended(r) => Cardinality(RowsOf(r)) = 1

\* C9 as amended: a call that returns a response, on the answered path and
\* on the no-context path alike, has called log_interaction exactly once
\* and has appended exactly one row when the pool is open and neither the
\* acquire nor the INSERT failed, and none otherwise; a call that ends in a
\* server error has appended none; no call appends two. The row carries the
\* request's conversationId and message, and the returned answer and sources.
C9_OneAppendPerLoggedResponse ==
    \A r \in DOMAIN reqs :
        /\ Cardinality(RowsOf(r)) <= 1
        /\ \A k \in RowsOf(r) :
              reqs[r].pc \in {"release", "responded"} /\ reqs[r].log_calls = 1
        /\ reqs[r].pc = "responded" =>
              /\ reqs[r].log_calls = 1
              /\ reqs[r].path \in {"answered", "no_context"}
              /\ IF pool = "open" /\ reqs[r].log_outcome
                        \notin {"acquire_failed", "insert_failed"}
                 THEN \E k \in RowsOf(r) :
                        /\ conv_log[k].conversation_id = reqs[r].response.conversation_id
                        /\ ~IdMissing(reqs[r].given_id) =>
                               conv_log[k].conversation_id = reqs[r].given_id
                        /\ conv_log[k].user_message = reqs[r].message
                        /\ conv_log[k].bot_response = reqs[r].response.answer
                        /\ conv_log[k].sources = reqs[r].response.sources
                 ELSE RowsOf(r) = {}
        /\ reqs[r].pc = "error500" => (RowsOf(r) = {} /\ reqs[r].log_calls = 0)

\* one request answered from retrieved chunks and one answered without
\* context, both logged
C9_Witness ==
    /\ DOMAIN reqs = Requests
    /\ \E r \in Requests :
          /\ reqs[r].pc = "responded" /\ reqs[r].path = "answered"
          /\ Len(reqs[r].response.sources) >= 2
          /\ Cardinality(RowsOf(r)) = 1
    /\ Len(conv_log) = MaxRequests

\* C17: search_similar never raises, on any error of the vector store it
\* returns an empty list; so an ask request whose search fails is answered
\* with the canned no-context response and not with a server error.
C17_SearchFailureIsNoContext ==
    \A r \in DOMAIN reqs :
        /\ reqs[r].path # "search_raised"
        /\ reqs[r].search_error =>
              /\ reqs[r].pc # "error500"
              /\ reqs[r].path = "no_context"
              /\ reqs[r].chat_calls = 0
              /\ reqs[r].response.answer = CannedAnswer
              /\ reqs[r].response.sources = <<>>
              /\ reqs[r].pc = "responded" => reqs[r].status = 200

\* a request whose search failed on a collection that holds points, and
\* which was answered
C17_Witness ==
    \E r \in DOMAIN reqs :
        /\ reqs[r].search_error
        /\ store.exists /\ store.points # {}
        /\ reqs[r].pc = "responded" /\ reqs[r].status = 200

\* the requests answered on the no-context path
NoContext(r) ==
    reqs[r].pc = "responded" /\ reqs[r].search_calls = 1 /\ reqs[r].path = "no_context"

\* what C18 says of the response of such a request
CannedResponse(r) ==
    /\ reqs[r].response.query = reqs[r].message
    /\ reqs[r].response.answer = CannedAnswer
    /\ reqs[r].response.sources = <<>>
    /\ reqs[r].response.conversation_id =
          (IF ~IdMissing(reqs[r].given_id) THEN reqs[r].given_id
           ELSE reqs[r].conversation_id)
    /\ reqs[r].conversation_id # NoId
    /\ reqs[r].chat_calls = 0

\* C18 as stated: when the search returns no chunks, ask returns the canned
\* answer with sources [] and the request's conversationId, does not call
\* the completion provider, and still logs one interaction with sources [].
C18_NoContextLogsOne ==
    \A r \in DOMAIN reqs :
        NoContext(r) =>
            /\ CannedResponse(r)
            /\ Cardinality(RowsOf(r)) = 1
            /\ \A k \in RowsOf(r) : conv_log[k].sources = <<>>

\* C18 as amended: when the search returns no chunks, ask returns the
\* canned answer with sources [] and the request's conversationId, does not
\* call the completion provider, and still calls log_interaction once with
\* sources []; the call logs one interaction with sources [] when the pool is
\* open and neither the acquire nor the INSERT failed, and none otherwise.
C18_NoContextPath ==
    \A r \in DOMAIN reqs :
        NoContext(r) =>
            /\ CannedResponse(r)
            /\ reqs[r].log_calls = 1
            /\ \A k \in RowsOf(r) :
                  /\ conv_log[k].sources = <<>>
                  /\ conv_log[k].bot_response = CannedAnswer
                  /\ conv_log[k].metadata = NoMetadata
            /\ Cardinality(RowsOf(r)) =
                  (IF pool = "open" /\ reqs[r].log_outcome = "inserted" THEN 1 ELSE 0)

\* a request without a conversation_id answered from an empty collection
\* and logged
C18_Witness ==
    /\ \E r \in DOMAIN reqs :
          /\ NoContext(r) /\ ~reqs[r].search_error
          /\ reqs[r].given_id = NoId
          /\ Cardinality(RowsOf(r)) = 1
    /\ store = EmptyCollection(VectorSize)

\* the request is inside its call of log_interaction
Logging(f) == f.pc \in {"log", "insert", "release"}

\* C19: a failure of the conversation log (no pool, a failed acquire, a
\* failed INSERT) never changes the outcome of an ask request:
\* log_interaction never raises, and the response returned is the one that
\* is returned when logging succeeds, the response built before the call.
C19_LogFailureIsSwallowed ==
    /\ [](\A r \in DOMAIN reqs :
            reqs[r].log_calls = 1 =>
                /\ reqs[r].pc # "error500"
                /\ reqs[r].pc = "responded" =>
                      /\ reqs[r].status = 200
                      /\ reqs[r].log_outcome \in {"disabled", "acquire_failed",
                                                    "insert_failed", "inserted"}
                      /\ reqs[r].response.query = reqs[r].message
                      /\ reqs[r].response.conversation_id = reqs[r].conversation_id)
    /\ [][\A r \in DOMAIN reqs :
            Logging(reqs[r]) =>
                /\ reqs'[r].response = reqs[r].response
                /\ Logging(reqs'[r]) \/ reqs'[r].pc = "responded"]_vars

\* one request answered from retrieved chunks although its INSERT failed,
\* and one answered although no connection could be acquired
C19_Witness ==
    /\ \E r \in DOMAIN reqs :
          /\ reqs[r].pc = "responded" /\ reqs[r].status = 200
          /\ reqs[r].path = "answered"
          /\ reqs[r].log_outcome = "insert_failed"
    /\ \E r \in DOMAIN reqs :
          /\ reqs[r].pc = "responded" /\ reqs[r].status = 200
          /\ reqs[r].log_outcome = "acquire_failed"
    /\ conv_log = <<>>

\* C20: when embedding the user message fails (the provider raises or
\* returns nothing), the ask request ends with a server error, status 500,
\* and neither the vector search nor the completion provider is called for
\* that request.
C20_EmbeddingFailureIs500 ==
    \A r \in DOMAIN reqs :
        reqs[r].embed_none =>
            /\ reqs[r].pc = "error500" /\ reqs[r].status = 500
            /\ reqs[r].search_calls = 0 /\ reqs[r].chat_calls = 0
            /\ reqs[r].response = NoResponse

\* the embedding failed for one request while another request with the
\* same message was answered from retrieved chunks
C20_Witness ==
    \E r \in DOMAIN reqs : \E q \in DOMAIN reqs :
        /\ reqs[r].embed_none /\ reqs[r].pc = "error500"
        /\ reqs[q].message = reqs[r].message
        /\ reqs[q].pc = "responded" /\ reqs[q].path = "answered"

\* the requests answered from retrieved chunks
Answered(r) == reqs[r].pc = "responded" /\ reqs[r].path = "answered"

\* the entries of sources are in the order of the chunks and carry their
\* url, section, hierarchy path and score
SourcesFollow(sources, chunks) ==
    /\ Len(sources) = Len(chunks)
    /\ \A k \in DOMAIN sources :
          sources[k] = [url |-> chunks[k].payload.url,
                        section |-> chunks[k].payload.section,
                        hierarchy_path |-> chunks[k].payload.hierarchy_path,
                        similarity_score |-> chunks[k].score]
    /\ \A k \in 1..(Len(sources) - 1) :
          sources[k].similarity_score >= sources[k + 1].similarity_score

C22_ValidIffDeclaredDimensions ==
    (val.op = "validate_embedding_quality" /\ ~val.result.error) =>
        /\ get_model_info.dimensions = VectorSize
        /\ val.result.is_valid <=>
               (val.result.dimensions = get_model_info.dimensions)

\* C23: run_comprehensive_validation always returns a result and raises
\* nothing; overall_status is "success" iff the dimensionality assertion of
\* the embedding-quality check held, "failed" when the check ran without
\* holding (also when the embedding call failed or returned another number
\* of vectors), "error" iff an exception reached the except clause, and
\* never "unknown".
C23_OverallStatus ==
    val.op = "run_comprehensive_validation" =>
        /\ val.result.overall_status \in ValidationStatuses
        /\ (val.result.overall_status = "error") <=> val.result.raised
        /\ (val.result.overall_status = "success") <=>
               /\ ~val.result.raised
               /\ ~val.result.embedding_validation.error
               /\ val.result.embedding_validation.embedding_count = Len(sample_texts)
               /\ val.result.embedding_validation.dimensions = AssertedDimensions
        /\ (val.result.overall_status = "failed") <=>
               /\ ~val.result.raised
               /\ \/ val.result.embedding_validation.error
                  \/ val.result.embedding_validation.dimensions # AssertedDimensions

\* the retrieval test ran, the embedding call returned fewer vectors than
\* sample texts, and the status is "failed"
C23_Witness ==
    /\ val.op = "run_comprehensive_validation"
    /\ val.result.tested
    /\ val.result.embedding_validation.error
    /\ val.result.overall_status = "failed"

(***************************************************************************)
(* Claims about the summary of run_pipeline                                *)
(***************************************************************************)
\* C24: in the summary of a run, processed + failed = total_urls = the
\* length of the discovered URL list, processed is the number of URLs for
\* which process_single_url returned True (skipped duplicates included),
\* and success_rate is processed / total_urls as a percentage (to the
\* nearest hundredth), 0 when there are no URLs.
C24_Summary ==
    pc = "done" =>
        /\ summary.total_urls = Len(urls)
        /\ summary.processed + summary.failed = summary.total_urls
        /\ summary.processed = CountResults(TRUE)
        /\ summary.failed = CountResults(FALSE)
        /\ \A h \in DOMAIN history :
              history[h].reason \in {"skipped", "ok"} => history[h].result
        /\ IF summary.total_urls = 0 THEN summary.success_rate = 0
           ELSE /\ 2 * (summary.success_rate * summary.total_urls
                          - summary.processed * 10000) <= summary.total_urls
                /\ 2 * (summary.processed * 10000
                          - summary.success_rate * summary.total_urls)
                       <= summary.total_urls

\* a finished run of two URLs, the second skipped as a duplicate of the
\* first: both count as processed
C24_Witness ==
    /\ pc = "done"
    /\ Len(urls) = 2
    /\ history[2].reason = "skipped"
    /\ summary.processed = 2 /\ summary.failed = 0
    /\ summary.success_rate = 10000

(***************************************************************************)
(* Claims about the conversation id                                        *)
(***************************************************************************)
\* the response and the log rows of request r carry the identifier id
CarriesId(r, id) ==
    /\ reqs[r].response # NoResponse => reqs[r].response.conversation_id = id
    /\ \A k \in RowsOf(r) : conv_log[k].conversation_id = id

\* the identifier of request r is one uuid4 has generated
FreshId(r) == \E n \in 0..(next_uuid - 1) : reqs[r].conversation_id = uuid4(n)

\* C25 as stated: a conversation_id the request supplies is the one of the
\* response and of the log entry; a request that supplies none gets a fresh
\* identifier, the same in the response and in the log entry, and no two
\* requests without an id get the same identifier.
C25_SuppliedIdIsKept ==
    \A r \in DOMAIN reqs : reqs[r].pc # "new" =>
        /\ reqs[r].given_id # NoId => CarriesId(r, reqs[r].given_id)
        /\ reqs[r].given_id = NoId =>
              /\ FreshId(r) /\ CarriesId(r, reqs[r].conversation_id)
              /\ \A q \in DOMAIN reqs :
                    (q # r /\ reqs[q].pc # "new" /\ reqs[q].given_id = NoId)
                        => reqs[q].conversation_id # reqs[r].conversation_id

\* C25 with the empty conversation_id counted as none: a non-empty
\* conversation_id of the request is the one of the response and of the log
\* entry; a request with no or an empty conversation_id gets a fresh
\* identifier, the same in the response and in the log entry, and no two
\* such requests get the same identifier.
C25_ConversationContinuity ==
    \A r \in DOMAIN reqs : reqs[r].pc # "new" =>
        /\ ~IdMissing(reqs[r].given_id) =>
              /\ reqs[r].conversation_id = reqs[r].given_id
              /\ CarriesId(r, reqs[r].given_id)
        /\ IdMissing(reqs[r].given_id) =>
              /\ FreshId(r) /\ CarriesId(r, reqs[r].conversation_id)
              /\ \A q \in DOMAIN reqs :
                    (q # r /\ reqs[q].pc # "new" /\ IdMissing(reqs[q].given_id))
                        => reqs[q].conversation_id # reqs[r].conversation_id

\* two requests, one without and one with an empty conversation_id, both
\* answered and logged
C25_Witness ==
    \E r \in DOMAIN reqs : \E q \in DOMAIN reqs :
        /\ reqs[r].given_id = NoId /\ reqs[q].given_id = EmptyId
        /\ reqs[r].pc = "responded" /\ reqs[q].pc = "responded"
        /\ RowsOf(r) # {} /\ RowsOf(q) # {}
        /\ reqs[r].response.conversation_id # reqs[q].response.conversation_id

(***************************************************************************)
(* Claims about the connection pool                                        *)
(***************************************************************************)
\* the calls of log_interaction and of get_conversation_history that are
\* inside their async with block, and those that have begun and not ended
LogHolders == {r \in DOMAIN reqs : reqs[r].pc \in {"insert", "release"}}
HistHolders == {h \in DOMAIN hist : hist[h].pc \in {"fetch", "release"}}
LogInFlight == {r \in DOMAIN reqs : reqs[r].pc \in {"log", "insert", "release"}}

\* C26: under any interleaving of log_interaction and
\* get_conversation_history calls, a connection is acquired only by a call
\* that is inside its async with block and is released when that block
\* ends, also when the statement failed; the number of acquired
\* connections never exceeds the bound of the pool and is 0 whenever no
\* call holds one, so whenever no call is in flight.
C26_ConnectionsReleased ==
    /\ borrowed = Cardinality(LogHolders) + Cardinality(HistHolders)
    /\ borrowed <= PoolMaxSize
    /\ (LogInFlight = {} /\ HistHolders = {}) => borrowed = 0

\* every call has ended, an INSERT and a SELECT among them failed, and
\* the pool has all its connections
C26_Witness ==
    /\ \A r \in DOMAIN reqs : reqs[r].pc \in {"responded", "error500"}
    /\ \A h \in DOMAIN hist : hist[h].pc = "returned"
    /\ \E r \in DOMAIN reqs : reqs[r].log_outcome = "insert_failed"
    /\ \E h \in DOMAIN hist : hist[h].outcome = "fetch_failed"
    /\ borrowed = 0

(***************************************************************************)
(* Claims about concurrent ask requests                                    *)
(***************************************************************************)
\* the response of request r is made of its own message, identifier and
\* retrieved chunks
OwnResponse(r) ==
    /\ reqs[r].response.query = reqs[r].message
    /\ reqs[r].response.conversation_id = reqs[r].conversation_id
    /\ reqs[r].response.sources = Sources(reqs[r].retrieved)
    /\ reqs[r].response.answer =
          (IF Len(reqs[r].retrieved) = 0 THEN CannedAnswer
           ELSE Completion(ContextParts(reqs[r].retrieved), reqs[r].message))

\* the rows request r logged are made of its own identifier, message,
\* address and response
OwnRows(r) ==
    \A k \in RowsOf(r) :
        /\ conv_log[k].conversation_id = reqs[r].conversation_id
        /\ conv_log[k].user_message = reqs[r].message
        /\ conv_log[k].user_ip = reqs[r].user_ip
        /\ conv_log[k].bot_response = reqs[r].response.answer
        /\ conv_log[k].sources = reqs[r].response.sources

\* C27: under any interleaving of concurrent ask requests that share one
\* Embedder, one QdrantStorage and one NeonLogger, the response and the log
\* entry of a request are built from that request's own message,
\* conversation id and retrieval results; a step of one request changes
\* nothing of another request and no row already logged, and leaves the
\* embedder, the collection and the pool of the logger as they were.
C27_RequestIsolation ==
    /\ [](\A r \in DOMAIN reqs :
            /\ reqs[r].response # NoResponse => OwnResponse(r)
            /\ OwnRows(r))
    /\ [][/\ \A r \in DOMAIN reqs : \A q \in DOMAIN reqs :
               (reqs'[r] # reqs[r] /\ q # r) => reqs'[q] = reqs[q]
          /\ \A k \in DOMAIN conv_log :
               k \in DOMAIN conv_log' /\ conv_log'[k] = conv_log[k]
          /\ store' = store /\ provider_dim' = provider_dim /\ et' = et
          /\ pool' = pool]_vars

\* two requests with different messages and identifiers, both answered
\* from retrieved chunks and logged, the second logged first
C27_Witness ==
    /\ Len(conv_log) = 2
    /\ conv_log[1].req = 2 /\ conv_log[2].req = 1
    /\ reqs[1].message # reqs[2].message
    /\ reqs[1].conversation_id # reqs[2].conversation_id
    /\ reqs[1].retrieved # reqs[2].retrieved
    /\ \A r \in {1, 2} : reqs[r].pc = "responded" /\ reqs[r].path = "answered"

(***************************************************************************)
(* Claims about chunk_with_sliding_window                                  *)
(***************************************************************************)
\* the index range and the recorded overlap of every chunk of a list
Ranges(chunks) ==
    [k \in DOMAIN chunks |->
        <<chunks[k].lo, chunks[k].hi, chunks[k].overlap_with_next>>]

\* C28: chunk_with_sliding_window is chunk_text with words for sentences:
\* for the same chunk size, the same overlap fraction and a sequence of
\* units of the same length, the two return the same number of chunks,
\* covering the same index ranges with the same overlap_with_next.
C28_WindowEqualsChunkText ==
    (ck.pc = "returned" /\ sw.pc = "returned" /\ ~ck.truncated /\ ~sw.truncated)
        => Ranges(sw.chunks) = Ranges(ck.chunks)

(***************************************************************************)
(* Claims about validate_retrieval_accuracy                                *)
(***************************************************************************)
\* C29: in validate_retrieval_accuracy with an expected URL for every
\* query, the accuracy recorded for a query is 1 iff the expected URL
\* matches the url of at least one of the (at most 5) chunks the search
\* returned and 0 otherwise, and average_recall is the mean accuracy over
\* the queries of the call, a query that retrieves nothing or cannot be
\* embedded counting as 0.
C29_AverageRecallOverQueries ==
    (/\ val.op = "validate_retrieval_accuracy"
     /\ ~val.result.error
     /\ Len(val.expected_urls) = Len(val.test_queries)) =>
        /\ \A k \in DOMAIN val.result.accuracy_metrics :
              LET m == val.result.accuracy_metrics[k]
                  found == val.result.passes[m.query_index + 1].chunks
              IN /\ Len(found) <= TopK
                 /\ m.accuracy \in {0, 1}
                 /\ (m.accuracy = 1) <=>
                        \E c \in DOMAIN found :
                            IsSubstring(m.expected_url, found[c].url)
        /\ val.result.average_recall.num * val.result.query_count =
              SumAccuracy(val.result.accuracy_metrics)
                  * val.result.average_recall.den

(***************************************************************************)
(* Claims about the batches of embed_texts                                 *)
(***************************************************************************)
\* the positions the batch calls of a call log carried, in call order
RECURSIVE BatchedPositions(_)
BatchedPositions(calls) ==
    IF Len(calls) = 0 THEN <<>>
    ELSE (IF Head(calls).single THEN <<>> ELSE Head(calls).positions)
         \o BatchedPositions(Tail(calls))

\* C30: every batch call embed_texts makes carries between 1 and
\* max_batch_size texts, and the batches are consecutive slices that
\* partition the input list in order: every input text is in exactly one
\* batch.
C30_BatchesPartitionInput ==
    et.pc = "returned" =>
        /\ \A c \in DOMAIN et.calls :
              ~et.calls[c].single =>
                  /\ Len(et.calls[c].positions) >= 1
                  /\ Len(et.calls[c].positions) <= max_batch_size
        /\ BatchedPositions(et.calls) = [k \in 1..Len(et.texts) |-> k - 1]

\* a call with a full batch followed by a shorter last batch, the first
\* of which failed
C30_Witness ==
    /\ et.pc = "returned"
    /\ \E c \in DOMAIN et.calls : \E d \in DOMAIN et.calls :
          /\ c < d
          /\ ~et.calls[c].single /\ ~et.calls[d].single
          /\ ~et.calls[c].ok
          /\ Len(et.calls[c].positions) = max_batch_size
          /\ Len(et.calls[d].positions) < max_batch_size

(***************************************************************************)
(* Claims about search_similar                                             *)
(***************************************************************************)
\* the chunks search_similar returned in the passes of a
\* validate_retrieval_accuracy call that embedded their query
SearchedPasses ==
    IF val.op = "validate_retrieval_accuracy"
    THEN {k \in DOMAIN val.result.passes : val.result.passes[k].embedded}
    ELSE {}

\* C31: for a collection containing points, search_similar(q, k) returns
\* at most k results ordered by descending similarity score, each result
\* exposing the id, score and payload of one stored point (the store's
\* ranked order and limit are preserved unchanged by the wrapper).
C31_SearchReturnsRanked ==
    (store.exists /\ store.points # {}) =>
        \A k \in SearchedPasses :
            LET found == val.result.passes[k].chunks
                q == Embedding(val.test_queries[k], provider_dim)
            IN /\ Len(found) <= TopK
               /\ \A i \in DOMAIN found : \A j \in DOMAIN found :
                     /\ i < j => found[i].score >= found[j].score
                     /\ i # j => found[i].id # found[j].id
               /\ \A i \in DOMAIN found : \E p \in store.points :
                     /\ found[i].id = p.id
                     /\ found[i].payload = p.payload
                     /\ found[i].score = Score(q, p.vector)

\* a search of a collection with more than top_k points that returned
\* top_k of them, with different scores
C31_Witness ==
    /\ Cardinality(store.points) > TopK
    /\ \E k \in SearchedPasses :
          LET found == val.result.passes[k].chunks
          IN /\ Len(found) = TopK
             /\ found[1].score > found[TopK].score

(***************************************************************************)
(* Claims about the outcomes of ask_question                               *)
(***************************************************************************)
\* a response with its four fields: the query of the request, an answer, a
\* list of sources and a conversation identifier
CompleteResponse(r) ==
    /\ reqs[r].status = 200
    /\ reqs[r].detail = <<>>
    /\ reqs[r].response.query = reqs[r].message
    /\ reqs[r].response.answer # <<>>
    /\ reqs[r].response.sources \in Seq(Range(reqs[r].response.sources))
    /\ ~IdMissing(reqs[r].response.conversation_id)

\* a server error with its description and no response body
ServerError(r) ==
    /\ reqs[r].status = 500
    /\ reqs[r].detail # <<>>
    /\ reqs[r].response = NoResponse

\* C32: every ask request ends in exactly one of two outcomes: a complete
\* response carrying query, answer, sources and conversationId, or a
\* server-error response (status 500) carrying the error description; a
\* completion-provider failure after retrieval yields the server error,
\* never a response with a missing or partial answer.
C32_ResponseOrServerError ==
    /\ [](\A r \in DOMAIN reqs :
            /\ Ended(r) =>
                  /\ CompleteResponse(r) \/ ServerError(r)
                  /\ ~(CompleteResponse(r) /\ ServerError(r))
                  /\ (reqs[r].pc = "responded") <=> CompleteResponse(r)
            /\ ~Ended(r) => reqs[r].status = 0
            /\ reqs[r].chat_error => ServerError(r) /\ reqs[r].pc = "error500")
    /\ [][\A r \in DOMAIN reqs : Ended(r) => reqs'[r] = reqs[r]]_vars

\* the completion provider failed for a request that had retrieved chunks,
\* while another request with the same message was answered
C32_Witness ==
    \E r \in DOMAIN reqs : \E q \in DOMAIN reqs :
        /\ reqs[r].chat_error /\ Len(reqs[r].retrieved) > 0
        /\ reqs[r].pc = "error500"
        /\ reqs[q].message = reqs[r].message
        /\ reqs[q].pc = "responded" /\ reqs[q].path = "answered"
        /\ Len(reqs[q].response.sources) > 0

(***************************************************************************)
(* Claims about processed_content                                          *)
(***************************************************************************)
\* the content ids of the calls of this run that stored all their chunks
StoredInRun ==
    {history[h].content_id :
        h \in {j \in DOMAIN history :
                 /\ history[j].result /\ history[j].reason = "ok"
                 /\ history[j].n_chunks >= 1
                 /\ history[j].upserts = history[j].n_chunks
                 /\ Len(history[j].written) = history[j].n_chunks
                 /\ \A k \in DOMAIN history[j].written :
                       \E p \in store.points : p.id = history[j].written[k].id}}

\* a call of process_single_url has just returned False
ReturnedFalse ==
    /\ Len(history') = Len(history) + 1
    /\ ~history'[Len(history')].result

\* C33: in every reachable state of a run, processed_content starts empty,
\* only ever grows, and contains a contentId only if every chunk of that
\* content was upserted successfully earlier in the same run; a URL that
\* failed at any step leaves the set unchanged, so a later occurrence of
\* the same content is processed again rather than skipped.
C33_ProcessedContentGrows ==
    /\ [](pc \in {"idle", "discovering", "crashed"} => processed_content = {})
    /\ [](processed_content = StoredInRun)
    /\ [][processed_content \subseteq processed_content']_vars
    /\ [][ReturnedFalse => processed_content' = processed_content]_vars
    /\ [](\A i \in DOMAIN history : \A j \in DOMAIN history :
            (/\ i < j
             /\ ~history[i].result
             /\ history[j].content_id = history[i].content_id
             /\ \A m \in (i + 1)..(j - 1) : ~history[m].marked)
            => history[j].reason # "skipped")

\* the content of a URL whose upsert failed came again and was stored, and
\* the set holds its content id
C33_Witness ==
    /\ Len(history) = 2
    /\ history[1].reason = "upsert_failed"
    /\ history[2].content_id = history[1].content_id
    /\ history[2].reason = "ok"
    /\ processed_content = {history[2].content_id}

(***************************************************************************)
(* Claims about the storage of one URL                                     *)
(***************************************************************************)
\* the points of the collection that carry the URL and content id of call h
PointsOfCall(h) ==
    {p \in store.points :
        /\ p.payload.url = history[h].url
        /\ p.payload.content_id = history[h].content_id}

\* C34: storage for one URL is all-or-nothing: after process_single_url
\* returns, the store holds either every chunk of that URL (result True)
\* or none of them (result False); in particular an upsert failure on the
\* k-th chunk leaves no earlier chunk of that URL stored.
C34_AllOrNothingPerUrl ==
    \A h \in DOMAIN history :
        /\ history[h].reason = "ok" =>
              /\ Len(history[h].written) = history[h].n_chunks
              /\ Cardinality(PointsOfCall(h)) = history[h].n_chunks
        /\ ~history[h].result =>
              /\ history[h].written = <<>>
              /\ (h = Len(history) /\ ps.pc # "chunking") => PointsOfCall(h) = {}

(***************************************************************************)
(* Claims about the validation of a run                                    *)
(***************************************************************************)
\* C35: pipeline and validator agree on dimensionality: for any fixed
\* embedding dimension d returned by the provider, given a store that
\* rejects upserts whose dimension differs from the collection's, if a run
\* stores at least one point (d equals the dimension the collection was
\* created with) then that run's validation reports overall_status
\* "success" whenever the validation embedding call itself succeeds.
C35_ValidatorAgreesWithPipeline ==
    (/\ pc = "done"
     /\ WrittenInRun # {}
     /\ WrittenInRun \subseteq store.points
     /\ \A p \in store.points : p.vector.dim = store.size
     /\ ~val.result.raised
     /\ ~val.result.embedding_validation.error)
    => val.result.overall_status = "success"

(***************************************************************************)
(* Claims about the phases of run_pipeline                                 *)
(***************************************************************************)
\* the steps run_pipeline can take from one phase to the next
PhaseSteps ==
    {<<"idle", "discovering">>, <<"idle", "crashed">>,
     <<"discovering", "processing">>, <<"discovering", "validating">>,
     <<"processing", "processing">>, <<"processing", "validating">>,
     <<"validating", "done">>}

\* a call of process_single_url is running
InCall == ps.pc = "chunking"

\* C36: phase ordering of a run: collection creation completes before URL
\* discovery and before any upsert; URLs are processed strictly one at a
\* time in source-list order (URL i+1 is not started before URL i has
\* returned); validation starts only after the last URL has returned; the
\* summary is produced only after validation.
C36_PhaseOrdering ==
    /\ [][pc' # pc \/ pc = "processing" => <<pc, pc'>> \in PhaseSteps]_vars
    /\ [](pc = "idle" => urls = <<>> /\ history = <<>> /\ ~InCall
                           /\ WrittenInRun = {} /\ upserted = {})
    /\ [](pc \in {"discovering", "processing", "validating", "done"} =>
              /\ store.exists /\ store.points \subseteq WrittenInRun
              /\ {p.id : p \in store.points} = {p.id : p \in WrittenInRun})
    /\ [](pc = "discovering" => store.points = {} /\ urls = <<>>)
    /\ [](/\ Len(history) = url_i
          /\ \A h \in DOMAIN history : h <= Len(urls) /\ history[h].url = urls[h]
          /\ InCall => /\ pc = "processing" /\ url_i < Len(urls)
                       /\ ps.url = urls[url_i + 1])
    /\ [][/\ url_i' \in {url_i, url_i + 1}
          /\ url_i' = url_i + 1 =>
                /\ history' = Append(history, history'[url_i + 1])
                /\ ~InCall'
          /\ InCall' /\ ~InCall => url_i' = url_i /\ history' = history
          /\ store'.points # store.points => pc = "idle" \/ (InCall /\ ~InCall')]_vars
    /\ [](pc \in {"validating", "done"} =>
              Len(history) = Len(urls) /\ ~InCall /\ ck = ChunkIdle)
    /\ [](val.op # "none" <=> pc = "done")
    /\ [](summary # NoSummary <=> pc = "done")
    /\ [](pc = "done" =>
              /\ val.op = "run_comprehensive_validation"
              /\ summary.validation_results = val.result.overall_status
              /\ summary.total_urls = Len(urls)
              /\ val.result.total_points \in {0, Cardinality(store.points)})

\* a finished run of two URLs, both stored, validated over their points
C36_Witness ==
    /\ pc = "done"
    /\ Len(urls) = 2 /\ urls[1] # urls[2]
    /\ history[1].reason = "ok" /\ history[2].reason = "ok"
    /\ val.result.total_points = Cardinality(store.points)
    /\ val.result.total_points >= 2
    /\ val.result.tested

(***************************************************************************)
(* Claims about the identity of what a URL yields                          *)
(***************************************************************************)
\* two calls of process_single_url were given the same URL and extracted
\* the same content
SamePage(i, j) ==
    /\ history[i].url = history[j].url
    /\ history[i].content = history[j].content
    /\ history[i].content # <<>>

\* the ids of the points a call upserted
PointIdsOf(o) == {o.written[k].id : k \in DOMAIN o.written}

\* a call has just stored a page that an earlier call had stored
StoredAgain ==
    /\ Len(history') = Len(history) + 1
    /\ history'[Len(history')].reason = "ok"
    /\ \E i \in DOMAIN history :
          /\ history[i].reason = "ok"
          /\ history[i].url = history'[Len(history')].url
          /\ history[i].content = history'[Len(history')].content

\* C37: identity is deterministic end to end: processing the same (url,
\* content) twice, in the same or in two orchestrator instances, yields
\* the same contentId, the same sequence of chunk ids and therefore the
\* same set of point ids, so ingesting an unchanged page again into an
\* existing collection overwrites its points and leaves the point count
\* unchanged.
C37_DeterministicIdentity ==
    /\ [](\A i \in DOMAIN history : \A j \in DOMAIN history :
            (i < j /\ SamePage(i, j)) =>
                /\ history[i].content_id = history[j].content_id
                /\ (history[i].chunked /\ history[j].chunked) =>
                       history[i].chunk_ids = history[j].chunk_ids
                /\ \A k \in DOMAIN history[i].written \cap DOMAIN history[j].written :
                       history[i].written[k].id = history[j].written[k].id
                /\ (history[i].reason = "ok" /\ history[j].reason = "ok") =>
                       /\ PointIdsOf(history[i]) = PointIdsOf(history[j])
                       /\ Cardinality(PointIdsOf(history[j])) = history[j].n_chunks
                       /\ PointIdsOf(history[j]) \subseteq {p.id : p \in store.points})
    /\ [][StoredAgain =>
            /\ Cardinality(store'.points) = Cardinality(store.points)
            /\ {p.id : p \in store'.points} = {p.id : p \in store.points}
            /\ Range(history'[Len(history')].written) \subseteq store'.points]_vars

\* a page of several chunks was stored by one orchestrator and again, at
\* another time, by a new one: the collection holds its points once
C37_Witness ==
    /\ Len(history) = 2
    /\ SamePage(1, 2)
    /\ history[1].reason = "ok" /\ history[2].reason = "ok"
    /\ history[2].n_chunks >= 2
    /\ history[1].written[1].payload.created_at
           # history[2].written[1].payload.created_at
    /\ Cardinality(store.points) = history[2].n_chunks
    /\ processed_count = 1

(***************************************************************************)
(* Claims about the lists both chunkers return                             *)
(***************************************************************************)
\* the list a returned call holds is well formed
WellFormed(f) ==
    /\ \A k \in DOMAIN f.chunks :
          /\ f.chunks[k].chunk_index = k - 1
          /\ f.chunks[k].chunk_text # <<>>
          /\ \A w \in DOMAIN f.chunks[k].chunk_text :
                f.chunks[k].chunk_text[w] # Blank
          /\ f.chunks[k].token_count >= 1
          /\ f.chunks[k].content_id = f.content_id
          /\ f.chunks[k].url = f.url
    /\ (\A w \in DOMAIN f.text : f.text[w] = Blank) => f.chunks = <<>>

\* C38: every list returned by chunk_text or chunk_with_sliding_window is
\* well formed: the i-th chunk has chunk_index = i (0-based, consecutive),
\* a non-empty chunk_text and token_count >= 1, all chunks carry the given
\* contentId and url, and an empty or whitespace-only input yields the
\* empty list; hence every point the pipeline stores has non-empty
\* content.
C38_ChunkListsWellFormed ==
    /\ ck.pc = "returned" => WellFormed(ck)
    /\ sw.pc = "returned" => WellFormed(sw)
    /\ \A f \in {ck, sw} :
          (f.pc # "idle" /\ \A w \in DOMAIN f.text : f.text[w] = Blank)
              => f.pc \in {"call", "returned"}
    /\ \A p \in store.points : p.payload.content # <<>>

\* both chunkers returned several chunks for a text with blank pieces
C38_Witness ==
    /\ ck.pc = "returned" /\ sw.pc = "returned"
    /\ Len(ck.chunks) >= 2 /\ Len(sw.chunks) >= 2
    /\ \E w \in DOMAIN ck.text : ck.text[w] = Blank
    /\ Len(ck.sentences) < Len(ck.text)
    /\ ck.chunks[2].chunk_index = 1 /\ sw.chunks[2].chunk_index = 1

====
